---- MODULE Spec2Model ----
(***************************************************************************)
(* portman: the port Registry (src/portman/db.py, class Database) and the  *)
(* Allocator (src/portman/allocator.py, class PortAllocator).              *)
(*                                                                         *)
(* The Registry is one SQLite file shared by short-lived processes.  A     *)
(* Database method that runs one statement is one action here;            *)
(* get_port_range runs two SELECTs and is two steps.                       *)
(* PortAllocator.allocate is a sequence of Registry calls with probe runs  *)
(* between them: it is modelled call by call (get_allocation,              *)
(* touch_allocation, get_all_allocated_ports, the SELECTs of               *)
(* get_port_range), and `pending` holds the locals of a running call.      *)
(* Every availability test of a call binds the port anew, so the answers   *)
(* of the host are inputs of the preferred test and of each scan.  The     *)
(* book, get and export commands are modelled the same way: the lookup of  *)
(* the name, allocate for the inferred type, create_allocation under the   *)
(* name, for the one name given or for each discovered service (--auto).   *)
(* The schema script runs statement by statement, a pass of prune's loop   *)
(* is the orphan test and then the delete, and prune_stale takes its       *)
(* cutoff from the clock before it reads its list.                         *)
(*                                                                         *)
(* The specifications share the definitions; the first ones are            *)
(*   Spec      the Registry's operations under a clock;                    *)
(*   SpecAlloc allocate against Registry states built by create, release   *)
(*             and set_port_range, with the host probe's answers as input; *)
(*   SpecFrame allocate on every branch, under a clock, between writers;   *)
(*   SpecRace  two processes that each run a book or get command;          *)
(* the later ones are introduced with the properties they carry.           *)
(*                                                                         *)
(* Pass-through columns that no operation reads (container_port, env_var,  *)
(* source) are left out of the records.                                    *)
(***************************************************************************)
EXTENDS Integers, Sequences, FiniteSets, TLC

\* ------------------------------------------------------------------ bounds
\* Largest row id the model lets AUTOINCREMENT hand out (number of inserts).
MaxId == 2
\* Registry calls one thread makes.
MaxCalls == 2
\* Last value of the clock.
MaxTime == 1
\* Clock ticks per calendar day (date part / time part of a timestamp).
TicksPerDay == 2

\* ------------------------------------------------------- sets of the model
Procs == {"p1", "p2"}
Contexts == {"ctxA", "ctxB"}
\* Service names passed by callers; "custom" has no seeded range.
Services == {"postgres", "custom", "default"}
\* preferred_port arguments; 0 stands for None (both are falsy in the code).
NoPort == 0
PreferredPorts == {NoPort, 7000, 7001}
\* Ports given to create_allocation by callers that book a port directly.
CreatePorts == {7000, 7001}
\* What the host probe answers during one allocate call: the ports
\* get_listening_ports reports and the ports is_port_bindable refuses.
NoProbe == [listening |-> {}, unbindable |-> {}]
Probes ==
    {NoProbe,
     [listening |-> {7000}, unbindable |-> {7000}],
     [listening |-> {}, unbindable |-> {7001}],
     [listening |-> {5432, 10000}, unbindable |-> {10001}]}
\* What the host refuses to bind while a range is scanned.
AlwaysBindable == {NoProbe.unbindable}
Unbindables == {{}, {7000}, {10001}}
\* Arguments of set_port_range used by the model.
RangeServices == {"custom", "default"}
RangeChoices == {<<7000, 7001>>}

None == [none |-> TRUE]
NotFound == -1
\* threading.Lock() that no thread holds.
LockFree == "free"
\* The tables _init_schema creates.
AllTables == {"schema_version", "allocations", "port_ranges"}
\* No Pruner call is in progress.
PrunerIdle ==
    [pc |-> "idle", kind |-> "none", dry_run |-> FALSE, days |-> 0,
     utc_offset |-> 0, cutoff |-> <<>>,
     todo |-> <<>>, removed |-> <<>>, kept |-> <<>>, errors |-> <<>>,
     read |-> {}]

VARIABLES
    allocations,   \* table allocations: a set of rows
    seq,           \* sqlite_sequence of allocations: largest id ever handed out
    port_ranges,   \* table port_ranges: service -> <<range_start, range_end>>
    now,           \* the clock, in ticks
    pending,       \* per process: the allocate call running, or its decision to commit
    paths,         \* the filesystem: the context paths that exist
    pruner,        \* the Pruner call in progress: its list, position and result
    tables,        \* the tables that exist in the database file
    lock,          \* Database._lock of the process: the thread that holds it
    last           \* the last operation: its arguments and its result

vars == <<allocations, seq, port_ranges, now, pending, paths, pruner, tables,
          lock, last>>

\* ------------------------------------------------------------- Registry
\* The working directories callers run from.  clone1 and clone2 are two
\* clones of one remote on the same branch; fork is a clone of another remote
\* with the same repository name and branch; site is not a git repository.
Dirs == {"clone1", "clone2", "fork", "site"}

\* get_context: the hash is taken from "remote:branch" (or from the path
\* outside git), the label is "repo/branch" (or the directory name), and the
\* path is the resolved working directory itself.  Two directories give one
\* hash with two paths, two hashes can carry one label.
get_context(dir) ==
    [hash |-> CASE dir \in {"clone1", "clone2"} -> "ctxA"
                [] dir = "fork" -> "ctxB"
                [] OTHER -> "ctxC",
     path |-> <<"path", dir>>,
     label |-> IF dir = "site" THEN "site" ELSE "app/main"]

\* The clones of the two remotes.
RepoDirs == {"clone1", "clone2", "fork"}

\* The directory a caller of each context works in, where a specification
\* has one caller per context.
Checkout == [ctxA |-> "clone1", ctxB |-> "fork"]

\* SQLite datetime('now'): "YYYY-MM-DD HH:MM:SS", as <<date part, time part>>.
datetime_now == <<now \div TicksPerDay, now % TicksPerDay>>

\* Text order of two timestamps of the same format.
TextLeq(a, b) == a[1] < b[1] \/ (a[1] = b[1] /\ a[2] <= b[2])

\* The rows inserted by _init_schema into port_ranges.
DefaultRanges ==
    [s \in {"postgres", "postgresql", "mysql", "mariadb", "redis", "mongodb",
            "mongo", "elasticsearch", "meilisearch", "rabbitmq", "kafka",
            "default"} |->
        CASE s \in {"postgres", "postgresql"} -> <<5432, 5499>>
          [] s \in {"mysql", "mariadb"} -> <<3306, 3399>>
          [] s = "redis" -> <<6379, 6449>>
          [] s \in {"mongodb", "mongo"} -> <<27017, 27099>>
          [] s = "elasticsearch" -> <<9200, 9299>>
          [] s = "meilisearch" -> <<7700, 7799>>
          [] s = "rabbitmq" -> <<5672, 5699>>
          [] s = "kafka" -> <<9092, 9099>>
          [] OTHER -> <<10000, 19999>>]

\* Mutant: the column port is not declared UNIQUE.
UniqueOk_NoPort(context_hash, service, port) ==
    \A a \in allocations : ~(a.context_hash = context_hash /\ a.service = service)

\* Mutant: the table has no UNIQUE(context_hash, service).
UniqueOk_NoPair(context_hash, service, port) ==
    \A a \in allocations : a.port # port

\* The UNIQUE constraints of table allocations: port, and (context_hash, service).
UniqueOk(context_hash, service, port) ==
    /\ \A a \in allocations : a.port # port
    /\ \A a \in allocations : ~(a.context_hash = context_hash /\ a.service = service)

\* Mutant: id INTEGER PRIMARY KEY without AUTOINCREMENT, the id is one more
\* than the largest id in the table, so the id of a deleted row comes back.
NewRow_ReuseId(context_hash, context_path, context_label, service, port) ==
    [id |-> IF allocations = {} THEN 1
            ELSE 1 + (CHOOSE i \in {a.id : a \in allocations} :
                        \A b \in allocations : b.id <= i),
     context_hash |-> context_hash,
     context_path |-> context_path,
     context_label |-> context_label,
     service |-> service,
     port |-> port,
     created_at |-> datetime_now,
     last_accessed_at |-> datetime_now]

\* The row create_allocation inserts: id from AUTOINCREMENT, both timestamps
\* from the column default datetime('now').
NewRow(context_hash, context_path, context_label, service, port) ==
    [id |-> seq + 1,
     context_hash |-> context_hash,
     context_path |-> context_path,
     context_label |-> context_label,
     service |-> service,
     port |-> port,
     created_at |-> datetime_now,
     last_accessed_at |-> datetime_now]

\* Mutant: INSERT OR IGNORE, a conflicting insert is dropped without an error.
create_allocation_Ignore(context_hash, context_path, context_label, service, port) ==
    IF UniqueOk(context_hash, service, port)
    THEN [ok |-> TRUE, id |-> seq + 1,
          allocations |-> allocations \cup
              {NewRow(context_hash, context_path, context_label, service, port)},
          seq |-> seq + 1]
    ELSE [ok |-> TRUE, id |-> seq, allocations |-> allocations, seq |-> seq]

\* Mutant: INSERT OR REPLACE, a conflicting insert replaces the rows it
\* conflicts with.
create_allocation_Replace(context_hash, context_path, context_label, service, port) ==
    [ok |-> TRUE, id |-> seq + 1,
     allocations |->
        {a \in allocations :
            /\ a.port # port
            /\ ~(a.context_hash = context_hash /\ a.service = service)}
        \cup {NewRow(context_hash, context_path, context_label, service, port)},
     seq |-> seq + 1]

\* Database.create_allocation: the INSERT commits, or raises
\* sqlite3.IntegrityError and the connection's context manager rolls back.
create_allocation(context_hash, context_path, context_label, service, port) ==
    IF UniqueOk(context_hash, service, port)
    THEN [ok |-> TRUE, id |-> seq + 1,
          allocations |-> allocations \cup
              {NewRow(context_hash, context_path, context_label, service, port)},
          seq |-> seq + 1]
    ELSE [ok |-> FALSE, id |-> NotFound, allocations |-> allocations, seq |-> seq]

\* Database.get_allocation: fetchone of the rows of the pair, or None.
get_allocation(context_hash, service) ==
    LET rows == {a \in allocations :
                    a.context_hash = context_hash /\ a.service = service}
    IN IF rows = {} THEN None ELSE CHOOSE a \in rows : TRUE

\* Database.get_all_allocated_ports.
get_all_allocated_ports == {a.port : a \in allocations}

\* Mutant: the UPDATE writes a constant instead of datetime('now').
touch_allocation_Epoch(allocation_id) ==
    {IF a.id = allocation_id
        THEN [a EXCEPT !.last_accessed_at = <<0, 0>>]
        ELSE a : a \in allocations}

\* Mutant: the UPDATE also resets created_at.
touch_allocation_Created(allocation_id) ==
    {IF a.id = allocation_id
        THEN [a EXCEPT !.last_accessed_at = datetime_now,
                       !.created_at = datetime_now]
        ELSE a : a \in allocations}

\* Mutant: the UPDATE has no WHERE clause.
touch_allocation_All(allocation_id) ==
    {[a EXCEPT !.last_accessed_at = datetime_now] : a \in allocations}

\* Database.touch_allocation: UPDATE ... SET last_accessed_at = datetime('now')
\* WHERE id = ?.
touch_allocation(allocation_id) ==
    {IF a.id = allocation_id
        THEN [a EXCEPT !.last_accessed_at = datetime_now]
        ELSE a : a \in allocations}

\* Mutant: the DELETE is not committed, the row stays.
delete_allocation_NoCommit(allocation_id) == allocations

\* Database.delete_allocation: DELETE ... WHERE id = ?.
delete_allocation(allocation_id) ==
    {a \in allocations : a.id # allocation_id}

\* Mutant: the DELETE has no WHERE clause.
delete_allocations_by_context_All(context_hash) ==
    [allocations |-> {}, count |-> Cardinality(allocations)]

\* Database.delete_allocations_by_context: the rows left, and rowcount.
delete_allocations_by_context(context_hash) ==
    [allocations |-> {a \in allocations : a.context_hash # context_hash},
     count |-> Cardinality({a \in allocations : a.context_hash = context_hash})]

\* Mutant: the result is True whatever rowcount is.
delete_allocation_by_service_AlwaysTrue(context_hash, service) ==
    [allocations |-> {a \in allocations :
                        ~(a.context_hash = context_hash /\ a.service = service)},
     deleted |-> TRUE]

\* Database.delete_allocation_by_service: the rows left, and rowcount > 0.
delete_allocation_by_service(context_hash, service) ==
    [allocations |-> {a \in allocations :
                        ~(a.context_hash = context_hash /\ a.service = service)},
     deleted |-> \E a \in allocations :
                        a.context_hash = context_hash /\ a.service = service]

\* Database.get_port_range, its first SELECT: the row of the service as a
\* PortRange, or None.
select_range(service) ==
    IF service \in DOMAIN port_ranges
    THEN [service |-> service,
          start |-> port_ranges[service][1], end |-> port_ranges[service][2]]
    ELSE None

\* Database.get_port_range, its second SELECT: the 'default' row, else the
\* hardcoded PortRange("default", 10000, 19999).
select_default ==
    IF "default" \in DOMAIN port_ranges
    THEN [service |-> "default",
          start |-> port_ranges["default"][1], end |-> port_ranges["default"][2]]
    ELSE [service |-> "default", start |-> 10000, end |-> 19999]

\* Database.get_port_range when no other process writes between its two
\* SELECTs: the service's row, else the 'default' row, else the hardcoded
\* range.
get_port_range(service) ==
    IF select_range(service) # None THEN select_range(service)
    ELSE select_default

\* Mutant: INSERT OR IGNORE, an existing row keeps its bounds.
set_port_range_InsertOnly(service, start, end) ==
    [s \in DOMAIN port_ranges \cup {service} |->
        IF s \in DOMAIN port_ranges THEN port_ranges[s] ELSE <<start, end>>]

\* Database.set_port_range: INSERT ... ON CONFLICT(service) DO UPDATE.
set_port_range(service, start, end) ==
    [s \in DOMAIN port_ranges \cup {service} |->
        IF s = service THEN <<start, end>> ELSE port_ranges[s]]

\* The sequences that list every element of S once.
Orderings(S) ==
    {q \in [1..Cardinality(S) -> S] :
        \A i, j \in 1..Cardinality(S) : i # j => q[i] # q[j]}

\* Text order of context_label and of service, as ORDER BY compares them
\* (byte by byte: a capital letter comes before every small one).
LabelRank(context_label) == IF context_label = "app/main" THEN 1 ELSE 2
ServiceRank ==
    [PGweb |-> 1, custom |-> 2, default |-> 3, pgadmin |-> 4, postgres |-> 5,
     web |-> 6]
RowKeyLeq(a, b) ==
    \/ LabelRank(a.context_label) < LabelRank(b.context_label)
    \/ /\ a.context_label = b.context_label
       /\ ServiceRank[a.service] <= ServiceRank[b.service]

\* Database.get_all_allocations: the lists SELECT * ... ORDER BY
\* context_label, service may return; rows of two contexts with the same
\* label and service come in any order.
get_all_allocations ==
    {q \in Orderings(allocations) :
        \A i \in 1..(Len(q) - 1) : RowKeyLeq(q[i], q[i + 1])}

\* Database.get_allocations_by_context: SELECT * ... WHERE context_hash = ?
\* ORDER BY service.
get_allocations_by_context(context_hash) ==
    CHOOSE q \in Orderings({a \in allocations : a.context_hash = context_hash}) :
        \A i \in 1..(Len(q) - 1) :
            ServiceRank[q[i].service] <= ServiceRank[q[i + 1].service]

\* The character between date and time: a space in SQLite's datetime('now'),
\* the letter T in Python's datetime.isoformat().
SpaceChar == 32
TChar == 84
SqlText(ts) == <<ts[1], SpaceChar, ts[2]>>
isoformat(ts) == <<ts[1], TChar, ts[2]>>

\* SQLite's `<` on two TEXT values: the first differing position decides.
TextLess(a, b) ==
    \/ a[1] < b[1]
    \/ a[1] = b[1] /\ a[2] < b[2]
    \/ a[1] = b[1] /\ a[2] = b[2] /\ a[3] < b[3]

\* The offsets of the caller's time zone from UTC, in ticks.
UtcOffsets == {-1, 0, 1, 2}

\* (datetime.now() - timedelta(days=days)).isoformat(): datetime.now() is
\* the naive local time of the caller, utc_offset away from the UTC clock
\* that datetime('now') stores.
cutoff_date(days, utc_offset) ==
    isoformat(<<(now + utc_offset - days * TicksPerDay) \div TicksPerDay,
                (now + utc_offset - days * TicksPerDay) % TicksPerDay>>)

\* The rows selected by WHERE last_accessed_at < ? for a cutoff text.
StaleRowsAt(cutoff) ==
    {a \in allocations : TextLess(SqlText(a.last_accessed_at), cutoff)}

\* The rows selected when the cutoff is taken and the SELECT runs in one
\* state.
StaleRows(days, utc_offset) == StaleRowsAt(cutoff_date(days, utc_offset))

\* The SELECT of get_stale_allocations for a cutoff text: the lists it may
\* return, ORDER BY last_accessed_at; rows with equal last_accessed_at come
\* in any order.
StaleSelected(cutoff) ==
    {q \in Orderings(StaleRowsAt(cutoff)) :
        \A i \in 1..(Len(q) - 1) :
            TextLeq(q[i].last_accessed_at, q[i + 1].last_accessed_at)}

\* Database.get_stale_allocations when nothing happens between its reading
\* of the clock and its SELECT.
get_stale_allocations(days, utc_offset) ==
    StaleSelected(cutoff_date(days, utc_offset))

\* ------------------------------------------------------------- Allocator
\* The largest port socket.bind takes; for a port outside 0..MaxPort it
\* raises OverflowError, which is not an OSError.
MaxPort == 65535
\* The result of a scan whose bind test raised.
Overflow == -2

\* SystemScanner.is_port_bindable, given the ports the host refuses to bind:
\* True, False (bind raised OSError), or the OverflowError that escapes.
is_port_bindable(port, unbindable) ==
    IF port < 0 \/ port > MaxPort THEN "OverflowError"
    ELSE IF port \in unbindable THEN "False" ELSE "True"

\* SystemScanner._scan_ss, _scan_lsof, _scan_netstat: the ports the tool
\* prints; a tool that times out (subprocess.TimeoutExpired) or is not
\* installed (FileNotFoundError) gives the empty set.
scan_tool(outcome, listening) == IF outcome = "ok" THEN listening ELSE {}

\* SystemScanner.get_listening_ports: ss, then lsof if ss gave nothing, then
\* netstat if lsof gave nothing; tools = <<ss, lsof, netstat>> outcomes.
get_listening_ports(tools, listening) ==
    IF scan_tool(tools[1], listening) # {} THEN scan_tool(tools[1], listening)
    ELSE IF scan_tool(tools[2], listening) # {} THEN scan_tool(tools[2], listening)
    ELSE scan_tool(tools[3], listening)

\* Mutant: the ports of the Registry are left out of the unavailable set.
get_unavailable_ports_ProbeOnly(listening) == listening

\* PortAllocator._get_unavailable_ports: db ports | listening ports.
get_unavailable_ports(listening) == get_all_allocated_ports \cup listening

\* Mutant: the bind test is left out.
is_port_available_NoBind(port, unavailable, unbindable) ==
    IF port \in unavailable THEN "False" ELSE "True"

\* Mutant: the ports held by allocations are not looked at.
is_port_available_NoClaimed(port, unavailable, unbindable) ==
    is_port_bindable(port, unbindable)

\* PortAllocator._is_port_available: False for a port of the unavailable
\* set, else what the bind test gives or raises.
is_port_available(port, unavailable, unbindable) ==
    IF port \in unavailable THEN "False" ELSE is_port_bindable(port, unbindable)

\* for port in range(start, end + 1): if available: return port.  The scan
\* ends with the first available port, with the exception of the bind test,
\* or with nothing found.
RECURSIVE ScanRange(_, _, _, _)
ScanRange(port, end, unavailable, unbindable) ==
    IF port > end THEN NotFound
    ELSE IF is_port_available(port, unavailable, unbindable) = "True" THEN port
    ELSE IF is_port_available(port, unavailable, unbindable) = "OverflowError"
    THEN Overflow
    ELSE ScanRange(port + 1, end, unavailable, unbindable)

\* Mutant: the existing allocation is not looked at.
reuse_Never(existing) == FALSE

\* if existing: (allocator.py 53) the pair's row, when there is one, ends the
\* call before the preferred port or any range is looked at.
reuse(existing) == existing # None

\* Mutant: the preferred port is never tried.
try_preferred_Skip(preferred_port, unavailable, unbindable) == "scan"

\* if preferred_port and self._is_port_available(preferred_port, unavailable):
\* the call returns the preferred port, goes on to the scan, or ends with the
\* OverflowError of the bind test.
try_preferred(preferred_port, unavailable, unbindable) ==
    IF preferred_port = NoPort THEN "scan"
    ELSE IF is_port_available(preferred_port, unavailable, unbindable)
            = "OverflowError"
    THEN "overflow"
    ELSE IF is_port_available(preferred_port, unavailable, unbindable) = "True"
    THEN "preferred"
    ELSE "scan"

\* Mutant: an exhausted range is not followed by the default range.
after_scan_NoFallback(loop, service, found) ==
    IF found = Overflow THEN "overflow"
    ELSE IF found # NotFound THEN "return"
    ELSE "error"

\* How a for loop of allocate ends: with the return of the port it found,
\* with the OverflowError of a bind test, and when it found nothing with the
\* scan of the default range (after the service's loop, if service !=
\* "default") or with PortAllocationError.
after_scan(loop, service, found) ==
    IF found = Overflow THEN "overflow"
    ELSE IF found # NotFound THEN "return"
    ELSE IF loop = "service" /\ service # "default" THEN "default"
    ELSE "error"

\* PortAllocator.allocate when no other process writes during the call and
\* the host answers every bind test of the call alike:
\* which branch returns, the port returned, and the id it touches (existing
\* allocation only).  Branch "error" is the PortAllocationError of an
\* exhausted scan, branch "overflow" the OverflowError of a bind test, which
\* allocate does not catch.
allocate(service, context_hash, preferred_port, listening, unbindable) ==
    LET existing == get_allocation(context_hash, service)
        unavailable == get_unavailable_ports(listening)
        preferred == try_preferred(preferred_port, unavailable, unbindable)
        port_range == get_port_range(service)
        in_range == ScanRange(port_range.start, port_range.end,
                              unavailable, unbindable)
        after_range == after_scan("service", service, in_range)
        default_range == get_port_range("default")
        in_default == ScanRange(default_range.start, default_range.end,
                                unavailable, unbindable)
        after_default == after_scan("default", service, in_default)
    IN IF reuse(existing)
       THEN [branch |-> "existing", port |-> existing.port, touch |-> existing.id]
       ELSE IF preferred = "overflow"
       THEN [branch |-> "overflow", port |-> NotFound, touch |-> NotFound]
       ELSE IF preferred = "preferred"
       THEN [branch |-> "preferred", port |-> preferred_port, touch |-> NotFound]
       ELSE IF after_range = "return"
       THEN [branch |-> "range", port |-> in_range, touch |-> NotFound]
       ELSE IF after_range \in {"overflow", "error"}
       THEN [branch |-> after_range, port |-> NotFound, touch |-> NotFound]
       ELSE IF after_default = "return"
       THEN [branch |-> "default", port |-> in_default, touch |-> NotFound]
       ELSE [branch |-> after_default, port |-> NotFound, touch |-> NotFound]

\* --------------------------------------------------------------- Pruner
\* Mutant: every allocation counts as orphaned.
is_orphan_Always(allocation) == TRUE

\* Pruner._is_orphan: the context_path does not exist.
is_orphan(allocation) == allocation.context_path \notin paths

\* The Pruner call that just read `todo` from the Registry; a call with
\* nothing to loop over returns at once.
PrunerStarted(kind, days, dry_run, todo) ==
    [pc |-> IF todo = <<>> THEN "returned" ELSE "run",
     kind |-> kind, dry_run |-> dry_run, days |-> days, utc_offset |-> 0,
     cutoff |-> <<>>,
     todo |-> todo, removed |-> <<>>, kept |-> <<>>, errors |-> <<>>,
     read |-> {todo[i] : i \in 1..Len(todo)}]

\* ---------------------------------------------------------------- actions
Init ==
    /\ allocations = {}
    /\ seq = 0
    /\ port_ranges = DefaultRanges
    /\ now = 0
    /\ pending = [p \in Procs |-> None]
    /\ paths = {get_context(d).path : d \in Dirs}
    /\ pruner = PrunerIdle
    /\ tables = AllTables
    /\ lock = LockFree
    /\ last = [op |-> "init"]

\* Time passes.
Tick ==
    /\ now < MaxTime
    /\ now' = now + 1
    /\ last' = [op |-> "tick"]
    /\ UNCHANGED <<allocations, seq, port_ranges, pending, paths, pruner, tables, lock>>

\* ---------------------------------------------------------- discovery
\* Service names given to `portman book` and `portman get`, and their
\* characters.
BookNames == {"postgres", "pgadmin", "PGweb", "web"}
NameChars ==
    [postgres |-> <<"p", "o", "s", "t", "g", "r", "e", "s">>,
     pgadmin |-> <<"p", "g", "a", "d", "m", "i", "n">>,
     PGweb |-> <<"P", "G", "w", "e", "b">>,
     web |-> <<"w", "e", "b">>,
     custom |-> <<"c", "u", "s", "t", "o", "m">>,
     default |-> <<"d", "e", "f", "a", "u", "l", "t">>]

\* str.lower() on the characters of the names.
lower(chars) ==
    [i \in 1..Len(chars) |->
        CASE chars[i] = "P" -> "p"
          [] chars[i] = "G" -> "g"
          [] OTHER -> chars[i]]

\* keyword in name_lower: substring test.
Contains(keyword, chars) ==
    \E i \in 0..(Len(chars) - Len(keyword)) :
        SubSeq(chars, i + 1, i + Len(keyword)) = keyword

\* The mappings of infer_service_type, in the order of the dict: keyword, type.
Mappings ==
    <<[keyword |-> <<"p", "o", "s", "t", "g", "r", "e", "s">>, type |-> "postgres"],
      [keyword |-> <<"p", "g">>, type |-> "postgres"],
      [keyword |-> <<"p", "s", "q", "l">>, type |-> "postgres"],
      [keyword |-> <<"m", "y", "s", "q", "l">>, type |-> "mysql"],
      [keyword |-> <<"m", "a", "r", "i", "a", "d", "b">>, type |-> "mysql"],
      [keyword |-> <<"r", "e", "d", "i", "s">>, type |-> "redis"],
      [keyword |-> <<"m", "o", "n", "g", "o">>, type |-> "mongodb"],
      [keyword |-> <<"e", "l", "a", "s", "t", "i", "c">>, type |-> "elasticsearch"],
      [keyword |-> <<"m", "e", "i", "l", "i">>, type |-> "meilisearch"],
      [keyword |-> <<"r", "a", "b", "b", "i", "t">>, type |-> "rabbitmq"],
      [keyword |-> <<"k", "a", "f", "k", "a">>, type |-> "kafka"]>>

\* infer_service_type(service_name): the type of the first keyword found in
\* the lower-cased name, "default" if there is none.
infer_service_type(service_name) ==
    LET name_lower == lower(NameChars[service_name])
        hits == {i \in 1..Len(Mappings) : Contains(Mappings[i].keyword, name_lower)}
    IN IF hits = {} THEN "default"
       ELSE Mappings[CHOOSE i \in hits : \A j \in hits : i <= j].type

\* ------------------------------------------------ allocate, call by call
\* One call of PortAllocator.allocate by process p, as the Registry calls it
\* makes: each takes the lock and the connection for itself, and other
\* processes write between any two of them.  pending[p] is the frame of the
\* call: its arguments, what it has read so far, the loop it is in, and how
\* many times it entered each loop.  probe holds the answers of the host
\* during the call; caller is the command that called, book or get, which
\* goes on to create_allocation with the port it gets, or NoCaller.
NoCaller == None
AllocRunning == {"touch", "collect", "select", "select_default"}

\* No allocate call is between two of its Registry calls.
NoCall ==
    \A p \in Procs :
        IF pending[p] = None THEN TRUE ELSE pending[p].status \notin AllocRunning

\* The call goes on: its frame is f.
AllocGoOn(p, f) ==
    /\ pending' = [pending EXCEPT ![p] = f]
    /\ last' = [op |-> "allocate_step", proc |-> p, status |-> f.status]

\* The commands that run over the list of discovered services.
AutoOps == {"book --auto", "export --auto"}

\* Where a command goes when it is done with a name: on to the next name of
\* its list (commands/book.py 40, commands/export.py 39), to the listing
\* of export (export.py 65) or to its end.
AfterName(caller) ==
    IF caller.rest # <<>> THEN "next"
    ELSE IF caller.op = "export --auto" THEN "list" ELSE "done"

\* The call is over with a port or an exception.  The command that called
\* goes on with every port returned, that of an existing row included, and
\* with the name it was given, not with the type it passed to allocate.
AllocOver(p, f, branch, port) ==
    /\ pending' = [pending EXCEPT ![p] =
            IF f.caller # NoCaller
            THEN [context_hash |-> f.context_hash, service |-> f.caller.name,
                  service_type |-> f.service, branch |-> branch,
                  port |-> port, caller |-> f.caller,
                  status |-> IF branch = "error" /\ f.caller.op \in AutoOps
                             THEN AfterName(f.caller)
                             ELSE IF branch \in {"error", "overflow"}
                             THEN branch ELSE "decided"]
            ELSE None]
    /\ last' = [op |-> "allocate", proc |-> p, service |-> f.service,
                context_hash |-> f.context_hash,
                preferred_port |-> f.preferred_port, probe |-> f.probe,
                branch |-> branch, port |-> port,
                touch |-> IF f.existing = None THEN NotFound ELSE f.existing.id,
                service_unbindable |-> f.service_unbindable,
                default_unbindable |-> f.default_unbindable,
                service_scans |-> f.service_scans,
                default_scans |-> f.default_scans]

\* Line 51: existing = self.db.get_allocation(context_hash, service), and
\* the frame of the call after it.
AllocLookup(service, context_hash, preferred_port, probe, caller) ==
    LET existing == get_allocation(context_hash, service)
    IN [status |-> IF reuse(existing) THEN "touch" ELSE "collect",
        service |-> service, context_hash |-> context_hash,
        preferred_port |-> preferred_port, probe |-> probe,
        caller |-> caller, existing |-> existing, unavailable |-> {},
        service_unbindable |-> {}, default_unbindable |-> {},
        loop |-> "service", lookup |-> service,
        service_scans |-> 0, default_scans |-> 0]

\* allocate called directly, by a caller that does nothing with the port.
AllocBegin(p, service, context_hash, preferred_port, probe) ==
    /\ pending[p] = None
    /\ AllocGoOn(p, AllocLookup(service, context_hash, preferred_port, probe,
                                NoCaller))
    /\ UNCHANGED <<allocations, seq, port_ranges, now, paths, pruner, tables, lock>>

\* existing = db.get_allocation(ctx.hash, name) for the first name of
\* names, by the command op of process p in directory dir, and what the
\* command does with the answer. commands/book.py 70-75 (`portman book
\* NAME [--port N]`): with a row, book prints its port and returns.
\* commands/get.py 29-35 and 53-57 (`portman get NAME [--no-book]`, which
\* passes no port): with a row, get goes on to touch it; without one,
\* `get --no-book` prints "No port allocated" and exits with status 1.
\* commands/book.py 42-47 (`book --auto`): with a row the loop continues
\* with the next name. commands/export.py 40-44 (`export --auto`): with a
\* row the command goes on to touch it. Without a row, the other commands
\* infer the type and go on to allocate.
Lookup(p, op, dir, names, preferred_port, probe) ==
    LET ctx == get_context(dir)
        name == Head(names)
        existing == get_allocation(ctx.hash, name)
        caller == [op |-> op, name |-> name, dir |-> dir, rest |-> Tail(names)]
        step == [op |-> "command_step", proc |-> p, service |-> name,
                 context_hash |-> ctx.hash]
    IN CASE existing # None /\ op = "book" ->
              /\ last' = [op |-> "book", proc |-> p, service |-> name,
                          context_hash |-> ctx.hash, port |-> existing.port,
                          outcome |-> "already"]
              /\ pending' = [pending EXCEPT ![p] = None]
         [] existing # None /\ op = "book --auto" ->
              /\ last' = step
              /\ pending' = [pending EXCEPT ![p] =
                    [status |-> AfterName(caller), caller |-> caller,
                     context_hash |-> ctx.hash]]
         [] existing # None /\ op \notin {"book", "book --auto"} ->
              /\ last' = step
              /\ pending' = [pending EXCEPT ![p] =
                    [status |-> "get_touch", caller |-> caller,
                     context_hash |-> ctx.hash, service |-> name,
                     existing |-> existing, probe |-> probe]]
         [] existing = None /\ op = "get --no-book" ->
              /\ last' = [op |-> "get", proc |-> p, service |-> name,
                          context_hash |-> ctx.hash, port |-> NotFound,
                          outcome |-> "not_allocated"]
              /\ pending' = [pending EXCEPT ![p] = None]
         [] OTHER ->
              /\ last' = step
              /\ pending' = [pending EXCEPT ![p] =
                    [status |-> "call", caller |-> caller,
                     context_hash |-> ctx.hash,
                     service |-> infer_service_type(name),
                     preferred_port |-> IF op = "book" THEN preferred_port
                                        ELSE NoPort,
                     probe |-> probe]]

\* Process p starts the command op in directory dir for the names given:
\* the NAME argument of book and get, the services discover_services found
\* for book --auto and export --auto; the lookup of the first name runs.
BookBegin(p, op, dir, names, preferred_port, probe) ==
    /\ pending[p] = None
    /\ names # <<>>
    /\ Lookup(p, op, dir, names, preferred_port, probe)
    /\ UNCHANGED <<allocations, seq, port_ranges, now, paths, pruner, tables, lock>>

\* commands/book.py 40-42 and commands/export.py 39-40: the loop of
\* book --auto or export --auto goes on with the next discovered service,
\* for which no port is preferred. The allocate call for that service runs
\* get_listening_ports and its bind tests anew (allocator.py 58, 93-95):
\* probe is what the host answers during that call, whatever it answered
\* during the calls for the names before.
BookNext(p, probe) ==
    /\ pending[p] # None
    /\ pending[p].status = "next"
    /\ LET f == pending[p]
       IN Lookup(p, f.caller.op, f.caller.dir, f.caller.rest, NoPort, probe)
    /\ UNCHANGED <<allocations, seq, port_ranges, now, paths, pruner, tables, lock>>

\* commands/export.py 65: after its loop export reads the allocations of
\* the context, which it prints.
ExportList(p) ==
    /\ pending[p] # None
    /\ pending[p].status = "list"
    /\ last' = [op |-> "export --auto", proc |-> p,
                context_hash |-> pending[p].context_hash,
                outcome |-> "listed",
                result |-> get_allocations_by_context(pending[p].context_hash)]
    /\ pending' = [pending EXCEPT ![p] = None]
    /\ UNCHANGED <<allocations, seq, port_ranges, now, paths, pruner, tables, lock>>

\* commands/get.py 33-34: db.touch_allocation(alloc["id"]) for the row read
\* at line 29, and the port of that row is printed. commands/export.py
\* 43-44: db.touch_allocation(existing["id"]) for the row read at line 40,
\* and the loop continues.
GetTouch(p) ==
    /\ pending[p] # None
    /\ pending[p].status = "get_touch"
    /\ allocations' = touch_allocation(pending[p].existing.id)
    /\ last' = [op |-> IF pending[p].caller.op = "export --auto"
                       THEN "export --auto" ELSE "get",
                proc |-> p, service |-> pending[p].service,
                context_hash |-> pending[p].context_hash,
                port |-> pending[p].existing.port, outcome |-> "already"]
    /\ pending' = [pending EXCEPT ![p] =
            IF pending[p].caller.op = "export --auto"
            THEN [status |-> AfterName(pending[p].caller),
                  caller |-> pending[p].caller,
                  context_hash |-> pending[p].context_hash]
            ELSE None]
    /\ UNCHANGED <<seq, port_ranges, now, paths, pruner, tables, lock>>

\* commands/book.py 77 and 52, commands/get.py 40 and commands/export.py
\* 49: the command calls allocator.allocate(service_type, ctx.hash[, port]),
\* whose line 51 runs.
AllocCall(p) ==
    /\ pending[p] # None
    /\ pending[p].status = "call"
    /\ LET f == pending[p]
       IN AllocGoOn(p, AllocLookup(f.service, f.context_hash, f.preferred_port,
                                   f.probe, f.caller))
    /\ UNCHANGED <<allocations, seq, port_ranges, now, paths, pruner, tables, lock>>

\* Lines 54-55: self.db.touch_allocation(existing["id"]) for the row read at
\* line 51, and the return of its port.
AllocTouch(p) ==
    /\ pending[p] # None
    /\ pending[p].status = "touch"
    /\ allocations' = touch_allocation(pending[p].existing.id)
    /\ AllocOver(p, pending[p], "existing", pending[p].existing.port)
    /\ UNCHANGED <<seq, port_ranges, now, paths, pruner, tables, lock>>

\* Mutant: allocate inserts the row for the preferred port it returns.
AllocCollect_Persist(p) ==
    /\ pending[p] # None
    /\ pending[p].status = "collect"
    /\ LET f == pending[p]
           unavailable == get_unavailable_ports(f.probe.listening)
           g == [f EXCEPT !.unavailable = unavailable]
           t == try_preferred(f.preferred_port, unavailable, f.probe.unbindable)
           ctx == get_context(Checkout[f.context_hash])
           insert == t = "preferred" /\ seq < MaxId
       IN /\ allocations' =
                IF insert
                THEN allocations \cup {NewRow(f.context_hash, ctx.path, ctx.label,
                                              f.service, f.preferred_port)}
                ELSE allocations
          /\ seq' = IF insert THEN seq + 1 ELSE seq
          /\ CASE t = "overflow" -> AllocOver(p, g, "overflow", NotFound)
               [] t = "preferred" -> AllocOver(p, g, "preferred", f.preferred_port)
               [] OTHER -> AllocGoOn(p, [g EXCEPT !.status = "select"])
    /\ UNCHANGED <<port_ranges, now, paths, pruner, tables, lock>>

\* Lines 58-63: unavailable = db ports | listening ports, collected once, and
\* the test of the preferred port.
AllocCollect(p) ==
    /\ pending[p] # None
    /\ pending[p].status = "collect"
    /\ LET f == pending[p]
           unavailable == get_unavailable_ports(f.probe.listening)
           g == [f EXCEPT !.unavailable = unavailable]
           t == try_preferred(f.preferred_port, unavailable, f.probe.unbindable)
       IN CASE t = "overflow" -> AllocOver(p, g, "overflow", NotFound)
            [] t = "preferred" -> AllocOver(p, g, "preferred", f.preferred_port)
            [] OTHER -> AllocGoOn(p, [g EXCEPT !.status = "select"])
    /\ UNCHANGED <<allocations, seq, port_ranges, now, paths, pruner, tables, lock>>

\* Lines 68-78, after get_port_range answered port_range: the for loop over
\* range(start, end + 1), which reads nothing of the Registry, and what
\* follows it.  Every test of the loop binds a socket afresh: unbindable is
\* what the host refuses while this loop runs, which need not be what it
\* refused when the preferred port was tested or during the other loop.
AllocScanned(p, f, port_range, unbindable) ==
    LET found == ScanRange(port_range.start, port_range.end,
                           f.unavailable, unbindable)
        g == [f EXCEPT !.service_scans = IF f.loop = "service" THEN @ + 1 ELSE @,
                       !.default_scans = IF f.loop = "default" THEN @ + 1 ELSE @,
                       !.service_unbindable =
                            IF f.loop = "service" THEN unbindable ELSE @,
                       !.default_unbindable =
                            IF f.loop = "default" THEN unbindable ELSE @]
        t == after_scan(f.loop, f.service, found)
    IN CASE t = "return" ->
                AllocOver(p, g, IF f.loop = "service" THEN "range" ELSE "default",
                          found)
         [] t = "default" ->
                AllocGoOn(p, [g EXCEPT !.status = "select", !.loop = "default",
                                       !.lookup = "default"])
         [] OTHER -> AllocOver(p, g, t, NotFound)

\* Lines 66 and 73: get_port_range, its first SELECT (the row of the service
\* looked up), and the loop over the range it answers; without a row the
\* call goes on to its second SELECT.
AllocSelect(p, unbindable) ==
    /\ pending[p] # None
    /\ pending[p].status = "select"
    /\ LET f == pending[p]
       IN IF select_range(f.lookup) # None
          THEN AllocScanned(p, f, select_range(f.lookup), unbindable)
          ELSE AllocGoOn(p, [f EXCEPT !.status = "select_default"])
    /\ UNCHANGED <<allocations, seq, port_ranges, now, paths, pruner, tables, lock>>

\* get_port_range, its second SELECT (the row of 'default'), or the
\* hardcoded range when there is no such row, and the loop over that range.
AllocSelectDefault(p, unbindable) ==
    /\ pending[p] # None
    /\ pending[p].status = "select_default"
    /\ AllocScanned(p, pending[p], select_default, unbindable)
    /\ UNCHANGED <<allocations, seq, port_ranges, now, paths, pruner, tables, lock>>

\* A caller books a port directly: Database.create_allocation.
\* The caller runs in directory dir and passes what get_context gave it.
CreateAllocation(dir, service, port) ==
    /\ seq < MaxId
    /\ LET ctx == get_context(dir)
           r == create_allocation(ctx.hash, ctx.path, ctx.label, service, port)
       IN /\ allocations' = r.allocations
          /\ seq' = r.seq
          /\ last' = [op |-> "create", service |-> service,
                      context_hash |-> ctx.hash, port |-> port,
                      ok |-> r.ok, id |-> r.id]
    /\ UNCHANGED <<port_ranges, now, pending, paths, pruner, tables, lock>>

\* commands/book.py 78-85 and 53-62, commands/get.py 42-49 and
\* commands/export.py 50-59: the command of process p calls
\* db.create_allocation with its context, the name it is at and the port
\* allocate returned; the row is committed, after which book --auto and
\* export --auto go on with their lists, or the INSERT raises
\* sqlite3.IntegrityError, which no command catches.
Commit(p) ==
    /\ pending[p] # None
    /\ pending[p].status = "decided"
    /\ seq < MaxId
    /\ LET d == pending[p]
           ctx == get_context(d.caller.dir)
           r == create_allocation(ctx.hash, ctx.path, ctx.label,
                                  d.caller.name, d.port)
       IN /\ allocations' = r.allocations
          /\ seq' = r.seq
          /\ last' = [op |-> d.caller.op, proc |-> p, service |-> d.caller.name,
                      context_hash |-> ctx.hash,
                      service_type |-> d.service_type, branch |-> d.branch,
                      port |-> d.port, ok |-> r.ok, id |-> r.id,
                      outcome |-> IF r.ok THEN "booked" ELSE "conflict"]
          /\ pending' = [pending EXCEPT ![p].status =
                           IF ~r.ok THEN "conflict"
                           ELSE IF d.caller.op \in AutoOps
                           THEN AfterName(d.caller) ELSE "committed"]
    /\ UNCHANGED <<port_ranges, now, paths, pruner, tables, lock>>

GetAllocation(context_hash, service) ==
    /\ last' = [op |-> "get", service |-> service, context_hash |-> context_hash,
                result |-> get_allocation(context_hash, service)]
    /\ UNCHANGED <<allocations, seq, port_ranges, now, pending, paths, pruner, tables, lock>>

Touch(allocation_id) ==
    /\ allocations' = touch_allocation(allocation_id)
    /\ last' = [op |-> "touch", id |-> allocation_id]
    /\ UNCHANGED <<seq, port_ranges, now, pending, paths, pruner, tables, lock>>

\* Also what Pruner.prune and Pruner.prune_stale do to the Registry: one
\* delete_allocation per id of a list they read earlier.
DeleteById(allocation_id) ==
    /\ allocations' = delete_allocation(allocation_id)
    /\ last' = [op |-> "delete", id |-> allocation_id]
    /\ UNCHANGED <<seq, port_ranges, now, pending, paths, pruner, tables, lock>>

DeleteByContext(context_hash) ==
    LET r == delete_allocations_by_context(context_hash)
    IN /\ allocations' = r.allocations
       /\ last' = [op |-> "delete_context", context_hash |-> context_hash,
                   count |-> r.count]
       /\ UNCHANGED <<seq, port_ranges, now, pending, paths, pruner, tables, lock>>

DeleteByService(context_hash, service) ==
    LET r == delete_allocation_by_service(context_hash, service)
    IN /\ allocations' = r.allocations
       /\ last' = [op |-> "delete_service", context_hash |-> context_hash,
                   service |-> service, deleted |-> r.deleted]
       /\ UNCHANGED <<seq, port_ranges, now, pending, paths, pruner, tables, lock>>

SetRange(service, start, end) ==
    /\ port_ranges' = set_port_range(service, start, end)
    /\ last' = [op |-> "set_range", service |-> service,
                start |-> start, end |-> end]
    /\ UNCHANGED <<allocations, seq, now, pending, paths, pruner, tables, lock>>

\* `portman config --set-range service:start-end`, after the argument is
\* parsed: start >= end prints an error and exits with status 1, otherwise
\* the range is stored.
ConfigSetRange(service, start, end) ==
    /\ port_ranges' = IF start >= end THEN port_ranges
                      ELSE set_port_range(service, start, end)
    /\ last' = [op |-> "config", service |-> service,
                start |-> start, end |-> end, ok |-> ~(start >= end)]
    /\ UNCHANGED <<allocations, seq, now, pending, paths, pruner, tables, lock>>

\* Time passes, up to a given tick.
TickTo(limit) ==
    /\ now < limit
    /\ now' = now + 1
    /\ last' = [op |-> "tick"]
    /\ UNCHANGED <<allocations, seq, port_ranges, pending, paths, pruner, tables, lock>>

\* A working directory is removed, or created again.
PathChange(dir) ==
    /\ paths' = IF get_context(dir).path \in paths
                THEN paths \ {get_context(dir).path}
                ELSE paths \cup {get_context(dir).path}
    /\ last' = [op |-> "path", dir |-> dir]
    /\ UNCHANGED <<allocations, seq, port_ranges, now, pending, pruner, tables, lock>>

\* Pruner.prune, up to its read of the Registry.
PruneStart(dry_run) ==
    /\ pruner.pc = "idle"
    /\ \E q \in get_all_allocations :
          pruner' = PrunerStarted("prune", 0, dry_run, q)
    /\ last' = [op |-> "prune_start", dry_run |-> dry_run]
    /\ UNCHANGED <<allocations, seq, port_ranges, now, pending, paths, tables, lock>>

\* result.errors.append(f"{alloc['context_label']}: {e}"): the entry names
\* the label of the record's context and the exception, not the record.
error_entry(alloc, e) == <<alloc.context_label, ": ">> \o e

\* str(e) of the sqlite3.OperationalError of a delete that finds the
\* database locked, and of the PermissionError of Path.exists() on a path
\* under a directory the caller may not search.
LockedText == <<"database is locked">>
PermissionText(path) == <<"[Errno 13] Permission denied: '", path, "'">>

\* Mutant: the loop goes on to the delete in a dry run too.
PruneCheck_IgnoreDryRun ==
    LET alloc == Head(pruner.todo)
        rest == Tail(pruner.todo)
        orphan == is_orphan(alloc)
    IN /\ pruner.pc = "run" /\ pruner.kind = "prune"
       /\ pruner' =
            IF orphan
            THEN [pruner EXCEPT !.pc = "delete"]
            ELSE [pruner EXCEPT
                    !.todo = rest,
                    !.kept = Append(@, alloc),
                    !.pc = IF rest = <<>> THEN "returned" ELSE "run"]
       /\ last' = [op |-> "prune_check", id |-> alloc.id, fail |-> FALSE,
                   orphan |-> orphan]
       /\ UNCHANGED <<allocations, seq, port_ranges, now, pending, paths, tables, lock>>

\* Pruner.prune, one pass of its loop up to its Registry call: the orphan
\* test of the next allocation of the list (Path.exists, which reads the
\* directories and holds no lock).  A record whose path exists goes to
\* `kept`, an orphan goes to `removed` in a dry run; outside a dry run the
\* pass goes on to delete_allocation, and other processes act before it.
PruneCheck ==
    LET alloc == Head(pruner.todo)
        rest == Tail(pruner.todo)
        orphan == is_orphan(alloc)
    IN /\ pruner.pc = "run" /\ pruner.kind = "prune"
       /\ pruner' =
            IF orphan /\ ~pruner.dry_run
            THEN [pruner EXCEPT !.pc = "delete"]
            ELSE [pruner EXCEPT
                    !.todo = rest,
                    !.removed = IF orphan THEN Append(@, alloc) ELSE @,
                    !.kept = IF orphan THEN @ ELSE Append(@, alloc),
                    !.pc = IF rest = <<>> THEN "returned" ELSE "run"]
       /\ last' = [op |-> "prune_check", id |-> alloc.id, fail |-> FALSE,
                   orphan |-> orphan]
       /\ UNCHANGED <<allocations, seq, port_ranges, now, pending, paths, tables, lock>>

\* Mutant: the record is appended to `removed` before its delete is tried.
PruneDelete_AppendFirst(fail) ==
    LET alloc == Head(pruner.todo)
        rest == Tail(pruner.todo)
    IN /\ pruner.pc = "delete" /\ pruner.kind = "prune"
       /\ allocations' = IF fail THEN allocations
                         ELSE delete_allocation(alloc.id)
       /\ pruner' = [pruner EXCEPT
                !.todo = rest,
                !.removed = Append(@, alloc),
                !.errors = IF fail
                           THEN Append(@, error_entry(alloc, LockedText))
                           ELSE @,
                !.pc = IF rest = <<>> THEN "returned" ELSE "run"]
       /\ last' = [op |-> "prune_delete", id |-> alloc.id, fail |-> fail]
       /\ UNCHANGED <<seq, port_ranges, now, pending, paths, tables, lock>>

\* Mutant: a delete that raises ends the call with the exception.
PruneDelete_Abort(fail) ==
    LET alloc == Head(pruner.todo)
        rest == Tail(pruner.todo)
    IN /\ pruner.pc = "delete" /\ pruner.kind = "prune"
       /\ allocations' = IF fail THEN allocations
                         ELSE delete_allocation(alloc.id)
       /\ pruner' = IF fail THEN [pruner EXCEPT !.pc = "raised"]
                    ELSE [pruner EXCEPT
                            !.todo = rest,
                            !.removed = Append(@, alloc),
                            !.pc = IF rest = <<>> THEN "returned" ELSE "run"]
       /\ last' = [op |-> "prune_delete", id |-> alloc.id, fail |-> fail]
       /\ UNCHANGED <<seq, port_ranges, now, pending, paths, tables, lock>>

\* Pruner.prune, the rest of a pass whose orphan test answered True outside
\* a dry run: self.db.delete_allocation(alloc["id"]), a Registry call with a
\* lock and a connection of its own, then result.removed.append(alloc).
\* fail says that the delete raises (the file is locked by another process),
\* which the except clause of the loop turns into an entry of `errors`.
PruneDelete(fail) ==
    LET alloc == Head(pruner.todo)
        rest == Tail(pruner.todo)
    IN /\ pruner.pc = "delete" /\ pruner.kind = "prune"
       /\ allocations' = IF fail THEN allocations
                         ELSE delete_allocation(alloc.id)
       /\ pruner' = [pruner EXCEPT
                !.todo = rest,
                !.removed = IF fail THEN @ ELSE Append(@, alloc),
                !.errors = IF fail
                           THEN Append(@, error_entry(alloc, LockedText))
                           ELSE @,
                !.pc = IF rest = <<>> THEN "returned" ELSE "run"]
       /\ last' = [op |-> "prune_delete", id |-> alloc.id, fail |-> fail]
       /\ UNCHANGED <<seq, port_ranges, now, pending, paths, tables, lock>>

\* Pruner.prune, one pass of its loop in which the orphan test itself raises
\* (Path.exists on a path the process may not search): the loop catches the
\* exception, records it and goes on with the next allocation.
PruneCheckFails ==
    LET alloc == Head(pruner.todo)
        rest == Tail(pruner.todo)
    IN /\ pruner.pc = "run" /\ pruner.kind = "prune"
       /\ pruner' = [pruner EXCEPT
                !.todo = rest,
                !.errors = Append(@, error_entry(alloc, PermissionText(alloc.context_path))),
                !.pc = IF rest = <<>> THEN "returned" ELSE "run"]
       /\ last' = [op |-> "prune_check", id |-> alloc.id, fail |-> TRUE,
                   orphan |-> FALSE]
       /\ UNCHANGED <<allocations, seq, port_ranges, now, pending, paths, tables, lock>>

\* Pruner.prune_stale, up to the cutoff get_stale_allocations computes from
\* the clock before it takes the lock, by a caller whose local time is
\* utc_offset away from UTC.
StaleStart(days, dry_run, utc_offset) ==
    /\ pruner.pc = "idle"
    /\ pruner' = [PrunerIdle EXCEPT
                    !.pc = "select", !.kind = "stale", !.days = days,
                    !.dry_run = dry_run, !.utc_offset = utc_offset,
                    !.cutoff = cutoff_date(days, utc_offset)]
    /\ last' = [op |-> "stale_cutoff", days |-> days, dry_run |-> dry_run,
                utc_offset |-> utc_offset]
    /\ UNCHANGED <<allocations, seq, port_ranges, now, pending, paths, tables, lock>>

\* The SELECT of get_stale_allocations with the cutoff computed before:
\* prune_stale has its list.
StaleSelect ==
    /\ pruner.pc = "select"
    /\ \E q \in StaleSelected(pruner.cutoff) :
            pruner' = [PrunerStarted("stale", pruner.days, pruner.dry_run, q)
                         EXCEPT !.utc_offset = pruner.utc_offset,
                                !.cutoff = pruner.cutoff]
    /\ last' = [op |-> "stale_start", days |-> pruner.days,
                dry_run |-> pruner.dry_run, utc_offset |-> pruner.utc_offset]
    /\ UNCHANGED <<allocations, seq, port_ranges, now, pending, paths, tables, lock>>

\* Pruner.prune_stale, one pass of its loop; fail says that the delete
\* raises, which nothing catches: the call ends with the exception.
StaleStep(fail) ==
    LET alloc == Head(pruner.todo)
        rest == Tail(pruner.todo)
        deletes == ~pruner.dry_run
    IN /\ pruner.pc = "run" /\ pruner.kind = "stale"
       /\ fail => deletes
       /\ allocations' = IF deletes /\ ~fail
                         THEN delete_allocation(alloc.id) ELSE allocations
       /\ pruner' = IF fail THEN [pruner EXCEPT !.pc = "raised"]
                    ELSE [pruner EXCEPT
                            !.todo = rest,
                            !.removed = Append(@, alloc),
                            !.pc = IF rest = <<>> THEN "returned" ELSE "run"]
       /\ last' = [op |-> "stale_step", id |-> alloc.id, fail |-> fail]
       /\ UNCHANGED <<seq, port_ranges, now, pending, paths, tables, lock>>

\* The caller has the PruneResult, or the exception, of the call.
PrunerDone ==
    /\ pruner.pc \in {"returned", "raised"}
    /\ pruner' = PrunerIdle
    /\ last' = [op |-> "prune_done"]
    /\ UNCHANGED <<allocations, seq, port_ranges, now, pending, paths, tables, lock>>

\* The answers of a host during one allocate call: `host` holds the ports
\* that listen and the ports that refuse a bind, `tools` how ss, lsof and
\* netstat end.
HostProbe(tools, host) ==
    [listening |-> get_listening_ports(tools, host.listening),
     unbindable |-> host.unbindable, tools |-> tools, host |-> host]

\* Database.get_port_range by process p, its first SELECT (the row of the
\* service): a row ends the call with that row; without one the call goes
\* on to its second SELECT; in a file without the table port_ranges the
\* SELECT raises sqlite3.OperationalError, which the call does not catch.
\* `seen` keeps the tables the call has lived through.
GetRangeFirst(p, service) ==
    /\ pending[p] = None
    /\ IF "port_ranges" \notin tables
       THEN /\ last' = [op |-> "get_range", service |-> service,
                        ok |-> FALSE, result |-> None,
                        seen |-> {port_ranges}]
            /\ UNCHANGED pending
       ELSE IF select_range(service) # None
       THEN /\ last' = [op |-> "get_range", service |-> service,
                        ok |-> TRUE, result |-> select_range(service),
                        seen |-> {port_ranges}]
            /\ UNCHANGED pending
       ELSE /\ last' = [op |-> "get_range_select", service |-> service]
            /\ pending' = [pending EXCEPT ![p] =
                             [status |-> "get_range", service |-> service,
                              seen |-> {port_ranges}]]
    /\ UNCHANGED <<allocations, seq, port_ranges, now, paths, pruner, tables, lock>>

\* Database.get_port_range by process p, its second SELECT (the row of
\* 'default') and its return.
GetRangeSecond(p) ==
    /\ pending[p] # None
    /\ pending[p].status = "get_range"
    /\ last' = [op |-> "get_range", service |-> pending[p].service,
                ok |-> TRUE, result |-> select_default,
                seen |-> pending[p].seen]
    /\ pending' = [pending EXCEPT ![p] = None]
    /\ UNCHANGED <<allocations, seq, port_ranges, now, paths, pruner, tables, lock>>

\* Database.set_port_range by a process, while get_port_range calls of
\* other processes are between their two SELECTs: the new table is added to
\* what each of those calls has lived through.
SetRangeObserved(service, start, end) ==
    /\ port_ranges' = set_port_range(service, start, end)
    /\ pending' = [p \in Procs |->
                     IF pending[p] # None /\ pending[p].status = "get_range"
                     THEN [pending[p] EXCEPT !.seen = @ \cup {port_ranges'}]
                     ELSE pending[p]]
    /\ last' = [op |-> "set_range", service |-> service,
                start |-> start, end |-> end]
    /\ UNCHANGED <<allocations, seq, now, paths, pruner, tables, lock>>

\* Database.__init__ by process p, up to the test of _init_schema: is there
\* a table schema_version? If there is, the construction is done.
OpenCheck(p) ==
    /\ pending[p] = None
    /\ pending' = [pending EXCEPT ![p] =
                     IF "schema_version" \in tables
                     THEN [status |-> "opened", step |-> 0]
                     ELSE [status |-> "initialising", step |-> 1]]
    /\ last' = [op |-> "open_check", proc |-> p]
    /\ UNCHANGED <<allocations, seq, port_ranges, now, paths, pruner, tables, lock>>

\* The script of _init_schema, statement by statement: 1 CREATE TABLE
\* schema_version, 2 its row, 3 CREATE TABLE allocations, 4-6 its indexes,
\* 7 CREATE TABLE port_ranges, 8-19 one INSERT INTO port_ranges per service,
\* in this order.
ScriptOrder ==
    <<"postgres", "postgresql", "mysql", "mariadb", "redis", "mongodb",
      "mongo", "elasticsearch", "meilisearch", "rabbitmq", "kafka", "default">>
ScriptSteps == 19
\* The table statement k creates, and the row it inserts into port_ranges.
ScriptTable(step) ==
    IF step = 1 THEN {"schema_version"}
    ELSE IF step = 3 THEN {"allocations"}
    ELSE IF step = 7 THEN {"port_ranges"} ELSE {}
ScriptRows(step) ==
    IF step >= 8 /\ step <= ScriptSteps THEN {ScriptOrder[step - 7]} ELSE {}

\* Database._init_schema by process p, the next statement of its
\* executescript: each statement commits on its own, and other processes
\* read and write the file between two of them; CREATE TABLE of a table that
\* exists and INSERT of a service that has a row raise, and the construction
\* ends with the exception, the statements before it committed.
OpenScript(p) ==
    /\ pending[p] # None
    /\ pending[p].status = "initialising"
    /\ LET k == pending[p].step
           fails == \/ ScriptTable(k) \cap tables # {}
                    \/ ScriptRows(k) \cap DOMAIN port_ranges # {}
       IN /\ tables' = IF fails THEN tables ELSE tables \cup ScriptTable(k)
          /\ port_ranges' =
                IF fails THEN port_ranges
                ELSE [s \in DOMAIN port_ranges \cup ScriptRows(k) |->
                        IF s \in ScriptRows(k) THEN DefaultRanges[s]
                        ELSE port_ranges[s]]
          /\ pending' = [pending EXCEPT ![p] =
                IF fails THEN [status |-> "open_failed", step |-> k]
                ELSE IF k = ScriptSteps THEN [status |-> "opened", step |-> 0]
                ELSE [status |-> "initialising", step |-> k + 1]]
          /\ last' = [op |-> "open_script", proc |-> p, step |-> k,
                      ok |-> ~fails]
    /\ UNCHANGED <<allocations, seq, now, paths, pruner, lock>>

\* Process p, its Database constructed, calls get_all_allocations: the
\* SELECT raises when the table does not exist.
OpenedList(p) ==
    /\ pending[p] # None
    /\ pending[p].status = "opened"
    /\ last' = [op |-> "opened_list", proc |-> p,
                ok |-> "allocations" \in tables]
    /\ UNCHANGED <<allocations, seq, port_ranges, now, pending, paths, pruner,
                   tables, lock>>

\* Process p, its Database constructed, calls get_port_range, a call of its
\* own after the one above: the first SELECT raises when the table does not
\* exist, answers with the row of the service, or finds none and the call
\* goes on to its second SELECT.
OpenedRangeFirst(p, service) ==
    /\ pending[p] # None
    /\ pending[p].status = "opened"
    /\ IF "port_ranges" \notin tables
       THEN /\ last' = [op |-> "get_range", proc |-> p, service |-> service,
                        ok |-> FALSE, result |-> None]
            /\ UNCHANGED pending
       ELSE IF select_range(service) # None
       THEN /\ last' = [op |-> "get_range", proc |-> p, service |-> service,
                        ok |-> TRUE, result |-> select_range(service)]
            /\ UNCHANGED pending
       ELSE /\ last' = [op |-> "get_range_select", proc |-> p, service |-> service]
            /\ pending' = [pending EXCEPT ![p] =
                             [status |-> "opened_select", step |-> 0,
                              service |-> service]]
    /\ UNCHANGED <<allocations, seq, port_ranges, now, paths, pruner, tables, lock>>

\* The second SELECT of that call (the row of 'default'), or the hardcoded
\* range, and its return.
OpenedRangeSecond(p) ==
    /\ pending[p] # None
    /\ pending[p].status = "opened_select"
    /\ last' = [op |-> "get_range", proc |-> p,
                service |-> pending[p].service,
                ok |-> TRUE, result |-> select_default]
    /\ pending' = [pending EXCEPT ![p] = [status |-> "opened", step |-> 0]]
    /\ UNCHANGED <<allocations, seq, port_ranges, now, paths, pruner, tables, lock>>

\* Process p ends: its command is done, or ends with the exception of the
\* construction, of create_allocation or of allocate.
ProcessExit(p) ==
    /\ pending[p] # None
    /\ pending[p].status \in {"opened", "open_failed", "committed", "conflict",
                               "error", "overflow", "done"}
    /\ pending' = [pending EXCEPT ![p] = None]
    /\ last' = [op |-> "exit", proc |-> p]
    /\ UNCHANGED <<allocations, seq, port_ranges, now, paths, pruner, tables, lock>>

\* ---------------------------------------------------------- specifications
\* The Registry's operations, called in any order by any process, under a
\* clock; allocate is called for pairs with and without a record.
Next ==
    \/ Tick
    \/ \E c \in Contexts, s \in Services, port \in CreatePorts :
            CreateAllocation(Checkout[c], s, port)
    \/ AllocBegin("p1", "postgres", "ctxA", NoPort, NoProbe)
    \/ AllocTouch("p1")
    \/ AllocCollect("p1")
    \/ \E u \in AlwaysBindable : AllocSelect("p1", u)
    \/ \E c \in Contexts, s \in Services : GetAllocation(c, s)
    \/ \E i \in 1..MaxId : Touch(i)
    \/ \E i \in 1..MaxId : DeleteById(i)
    \/ \E c \in Contexts : DeleteByContext(c)
    \/ \E c \in Contexts, s \in Services : DeleteByService(c, s)

Spec == Init /\ [][Next]_vars

\* allocate with every argument and probe answer of the model, a preferred
\* port that no socket takes among them, against the Registry states that
\* create, release and set_port_range build; callers come one at a time, no
\* process writes while a call of allocate runs.
AllocPreferred == PreferredPorts \cup {70000}
NextAlloc ==
    \/ \E s \in Services, c \in Contexts, pp \in AllocPreferred, pr \in Probes :
            AllocBegin("p1", s, c, pp, pr)
    \/ AllocTouch("p1")
    \/ AllocCollect("p1")
    \/ \E u \in Unbindables : AllocSelect("p1", u)
    \/ \E u \in Unbindables : AllocSelectDefault("p1", u)
    \/ \E c \in Contexts, s \in Services, port \in CreatePorts :
            NoCall /\ CreateAllocation(Checkout[c], s, port)
    \/ \E c \in Contexts, s \in Services : NoCall /\ GetAllocation(c, s)
    \/ \E c \in Contexts, s \in Services : NoCall /\ DeleteByService(c, s)
    \/ \E s \in RangeServices, r \in RangeChoices :
            NoCall /\ SetRange(s, r[1], r[2])

SpecAlloc == Init /\ [][NextAlloc]_vars

\* allocate on each of its branches while time passes and other processes
\* write between its Registry calls: the existing allocation is touched at a
\* later time than it was created.
NextFrame ==
    \/ Tick
    \/ \E c \in Contexts, pp \in AllocPreferred :
            AllocBegin("p1", "custom", c, pp, NoProbe)
    \/ AllocTouch("p1")
    \/ AllocCollect("p1")
    \/ \E u \in AlwaysBindable : AllocSelect("p1", u)
    \/ \E u \in AlwaysBindable : AllocSelectDefault("p1", u)
    \/ \E c \in Contexts, s \in RangeServices, port \in CreatePorts :
            CreateAllocation(Checkout[c], s, port)
    \/ \E s \in RangeServices, r \in RangeChoices : SetRange(s, r[1], r[2])

SpecFrame == Init /\ [][NextFrame]_vars

\* Two processes, each running one book or get command: the lookup of the
\* name, allocate for its type and create_allocation, each Registry call a
\* step of its own.
RaceNames == {"postgres", "pgadmin", "custom", "default"}
NextRace ==
    \/ \E p \in Procs, op \in {"book", "get", "get --no-book"}, c \in Contexts,
          n \in RaceNames, pp \in PreferredPorts :
            BookBegin(p, op, Checkout[c], <<n>>, pp, NoProbe)
    \/ \E p \in Procs : GetTouch(p)
    \/ \E p \in Procs : AllocCall(p)
    \/ \E p \in Procs : AllocTouch(p)
    \/ \E p \in Procs : AllocCollect(p)
    \/ \E p \in Procs, u \in AlwaysBindable : AllocSelect(p, u)
    \/ \E p \in Procs : Commit(p)

SpecRace == Init /\ [][NextRace]_vars

\* ------------------------------------------------------------------ claims
\* The rows of a pair, and the ports held, in the current state.
RowsOf(context_hash, service) ==
    {a \in allocations : a.context_hash = context_hash /\ a.service = service}

\* C1: in every reachable Registry state, whatever the order in which
\* create, touch, the three deletes (and the per-id deletes of the Pruner)
\* and allocate ran, no two rows of allocations have the same port.
C1_PortUnique ==
    \A a, b \in allocations : a.port = b.port => a = b

\* A create for a port that another pair's row holds was rejected, and the
\* Registry holds rows.
C1_Witness ==
    /\ last.op = "create" /\ ~last.ok
    /\ RowsOf(last.context_hash, last.service) = {}
    /\ \E a \in allocations : a.port = last.port

\* C2: in every reachable Registry state there is at most one row for each
\* (context_hash, service) pair.
C2_PairUnique ==
    \A a, b \in allocations :
        (a.context_hash = b.context_hash /\ a.service = b.service) => a = b

\* A create for a pair that has a row, with a port nobody holds, was rejected.
C2_Witness ==
    /\ last.op = "create" /\ ~last.ok
    /\ RowsOf(last.context_hash, last.service) # {}
    /\ \A a \in allocations : a.port # last.port

\* C3: create_allocation fails exactly when the port is held by some row or
\* the pair has a row; a failed create leaves allocations, the id sequence
\* and the ranges as they were, and a successful one adds exactly one row,
\* the one for its arguments.
C3_CreateConflict ==
    [][last'.op = "create" =>
        LET portHeld == \E a \in allocations : a.port = last'.port
            pairHeld == RowsOf(last'.context_hash, last'.service) # {}
        IN /\ last'.ok <=> ~(portHeld \/ pairHeld)
           /\ port_ranges' = port_ranges
           /\ ~last'.ok => allocations' = allocations /\ seq' = seq
           /\ last'.ok =>
                /\ allocations \subseteq allocations'
                /\ Cardinality(allocations') = Cardinality(allocations) + 1
                /\ \A r \in allocations' \ allocations :
                        /\ r.context_hash = last'.context_hash
                        /\ r.service = last'.service
                        /\ r.port = last'.port
                        /\ r.id = last'.id]_vars

\* A create succeeded next to a row of another pair.
C3_Witness ==
    /\ last.op = "create" /\ last.ok
    /\ Cardinality(allocations) = 2

\* C4: when two processes for different contexts have both decided the same
\* port and both have run create_allocation, exactly one of them committed
\* and the other got the conflict error; the Registry holds that port once,
\* in the row of the process that committed.
C4_RaceOneWinner ==
    \A p, q \in Procs :
        (/\ p # q
         /\ pending[p] # None /\ pending[q] # None
         /\ pending[p].status \in {"committed", "conflict"}
         /\ pending[q].status \in {"committed", "conflict"}
         /\ pending[p].context_hash # pending[q].context_hash
         /\ pending[p].port = pending[q].port)
        => /\ pending[p].status # pending[q].status
           /\ LET w == IF pending[p].status = "committed" THEN pending[p]
                       ELSE pending[q]
                  held == {a \in allocations : a.port = w.port}
              IN /\ Cardinality(held) = 1
                 /\ \A a \in held : /\ a.context_hash = w.context_hash
                                     /\ a.service = w.service

\* Both processes decided the same port for different contexts before either
\* committed, and both have run create_allocation.
C4_Witness ==
    /\ pending["p1"] # None /\ pending["p2"] # None
    /\ pending["p1"].status = "conflict"
    /\ pending["p2"].status = "committed"
    /\ pending["p1"].context_hash # pending["p2"].context_hash
    /\ pending["p1"].port = pending["p2"].port

\* C5: while a row for (context, service) with port p is in the Registry,
\* every allocate call for the pair returns p, through the existing-allocation
\* branch, whatever preferred port it is given and whatever the probe says
\* about p; and every get_allocation call for the pair returns the row with p.
C5_StableReuse ==
    [][\A a \in allocations :
        (/\ last'.op \in {"allocate", "get"}
         /\ last'.context_hash = a.context_hash
         /\ last'.service = a.service)
        => IF last'.op = "allocate"
           THEN last'.port = a.port /\ last'.branch = "existing"
           ELSE last'.result # None /\ last'.result.port = a.port]_vars

\* allocate returned the port of the pair's row although another preferred
\* port was passed and the probe reports the row's port as listening and
\* not bindable.
C5_Witness ==
    /\ last.op = "allocate" /\ last.branch = "existing"
    /\ last.preferred_port # NoPort /\ last.preferred_port # last.port
    /\ last.port \in last.probe.listening
    /\ last.port \in last.probe.unbindable
    /\ \E a \in RowsOf(last.context_hash, last.service) : a.port = last.port

\* C6: last_accessed_at of a row never decreases while the row exists: a new
\* row has last_accessed_at = created_at = the time of the insert, and a
\* touch (touch_allocation, or allocate for a pair that has a row) sets it to
\* the current time.
C6_AccessMonotone ==
    [][/\ \A a \in allocations : \A b \in allocations' :
            a.id = b.id => TextLeq(a.last_accessed_at, b.last_accessed_at)
       /\ \A b \in allocations' :
            (\A a \in allocations : a.id # b.id)
            => /\ b.last_accessed_at = b.created_at
               /\ b.created_at = datetime_now
       /\ \A b \in allocations' :
            (\/ last'.op = "touch" /\ last'.id = b.id
             \/ /\ last'.op = "allocate"
                /\ last'.branch = "existing"
                /\ last'.touch = b.id)
            => b.last_accessed_at = datetime_now]_vars

\* A row created at one time was touched at a later time.
C6_Witness ==
    /\ last.op = "touch"
    /\ \E a \in allocations :
        /\ a.id = last.id
        /\ a.last_accessed_at # a.created_at
        /\ TextLeq(a.created_at, a.last_accessed_at)
        /\ a.last_accessed_at = datetime_now

\* The columns of a row other than last_accessed_at.
Immutable(a) == [a EXCEPT !.last_accessed_at = <<0, 0>>]

\* C7: no step of an allocate call adds a row, deletes one, or changes a
\* range or the id sequence.  If the pair has no row, allocations is
\* unchanged, on the preferred-port branch, the scans and the failures alike;
\* if it has one, the only change is the last_accessed_at of that row.
C7_AllocateFrame ==
    [][last'.op \in {"allocate", "allocate_step"} =>
        /\ port_ranges' = port_ranges
        /\ seq' = seq
        /\ {Immutable(a) : a \in allocations'} = {Immutable(a) : a \in allocations}
        /\ Cardinality(allocations') = Cardinality(allocations)
        /\ last'.op = "allocate_step" => allocations' = allocations
        /\ last'.op = "allocate" =>
            /\ RowsOf(last'.context_hash, last'.service) = {}
                => allocations' = allocations
            /\ \A a \in allocations :
                ~(a.context_hash = last'.context_hash /\ a.service = last'.service)
                => a \in allocations']_vars

\* allocate for a pair that has a row changed that row's last_accessed_at,
\* next to an untouched row of another pair.
C7_Witness ==
    /\ last.op = "allocate" /\ last.branch = "existing"
    /\ Cardinality(allocations) = 2
    /\ \E a \in RowsOf(last.context_hash, last.service) :
        a.last_accessed_at # a.created_at

\* Whether the probe and the Registry leave port p free in an allocate call:
\* no row holds it, nothing listens on it, and it is a port that a socket
\* can be bound to on the host.
FreeIn(p, held, probe) ==
    /\ p \notin held /\ p \notin probe.listening
    /\ p \in 0..MaxPort /\ p \notin probe.unbindable

\* What the host answered while a loop of the last allocate call ran, and at
\* the test that let the returned port through.
ScanProbe(l, loop) ==
    [listening |-> l.probe.listening,
     unbindable |-> IF loop = "service" THEN l.service_unbindable
                    ELSE l.default_unbindable]
ReturnProbe(l) ==
    IF l.branch = "range" THEN ScanProbe(l, "service")
    ELSE IF l.branch = "default" THEN ScanProbe(l, "default")
    ELSE [listening |-> l.probe.listening, unbindable |-> l.probe.unbindable]

\* C8: when the pair has no row and no preferred port is usable, allocate
\* returns the lowest port of get_port_range(service) that is neither
\* allocated nor listening and is bindable, whenever the range has one; it
\* leaves the range only when the range has none.
C8_MinimalScan ==
    [][(/\ last'.op = "allocate"
        /\ RowsOf(last'.context_hash, last'.service) = {}
        /\ \/ last'.preferred_port = NoPort
           \/ ~FreeIn(last'.preferred_port, get_all_allocated_ports, last'.probe))
       => LET rng == get_port_range(last'.service)
              held == get_all_allocated_ports
          IN IF last'.branch = "range"
             THEN /\ last'.port \in rng.start..rng.end
                  /\ FreeIn(last'.port, held, ScanProbe(last', "service"))
                  /\ \A q \in rng.start..(last'.port - 1) :
                        ~FreeIn(q, held, ScanProbe(last', "service"))
             ELSE /\ last'.branch \in {"default", "error"}
                  /\ \A q \in rng.start..rng.end :
                        ~FreeIn(q, held, ScanProbe(last', "service"))]_vars

\* C9: for a pair without a row, a port that allocate returns (preferred,
\* from the service's range or from the default range) is held by no row,
\* is not reported listening and passed the bind test; and no allocate call
\* returns to one context a port that a row of another context holds.
C9_ReturnedPortFree ==
    [][last'.op = "allocate" =>
        /\ (RowsOf(last'.context_hash, last'.service) = {}
            /\ last'.branch \notin {"error", "overflow"})
           => /\ last'.branch \in {"preferred", "range", "default"}
              /\ last'.port \notin get_all_allocated_ports
              /\ last'.port \notin last'.probe.listening
              /\ last'.port \notin ReturnProbe(last').unbindable
        /\ \A a \in allocations :
            a.context_hash # last'.context_hash => a.port # last'.port]_vars

\* allocate returned a port to a new pair while another context holds a row
\* and the probe refuses a port that is not listening.
C9_Witness ==
    /\ last.op = "allocate"
    /\ last.branch \in {"preferred", "range", "default"}
    /\ last.probe.unbindable # {} /\ last.probe.listening = {}
    /\ \E a \in allocations : a.context_hash # last.context_hash
    /\ last.port \notin get_all_allocated_ports

\* C10: if the pair has no row and the preferred port is given, is neither
\* allocated nor listening and is bindable, allocate returns the preferred
\* port through the preferred branch (no range is scanned), also when the
\* port lies outside the service's range.
C10_PreferredHonoured ==
    [][(/\ last'.op = "allocate"
        /\ RowsOf(last'.context_hash, last'.service) = {}
        /\ last'.preferred_port # NoPort
        /\ FreeIn(last'.preferred_port, get_all_allocated_ports, last'.probe))
       => /\ last'.port = last'.preferred_port
          /\ last'.branch = "preferred"]_vars

\* allocate returned a preferred port that lies outside the service's range.
C10_Witness ==
    /\ last.op = "allocate" /\ last.branch = "preferred"
    /\ last.port = last.preferred_port
    /\ LET rng == get_port_range(last.service)
       IN last.port < rng.start \/ last.port > rng.end

\* The preferred port of the last allocate call is held by a row of another
\* pair, or the host refuses to bind it.
PreferredElided(rows, l) ==
    /\ l.preferred_port # NoPort
    /\ \/ \E a \in rows :
            /\ a.port = l.preferred_port
            /\ ~(a.context_hash = l.context_hash /\ a.service = l.service)
       \/ is_port_bindable(l.preferred_port, l.probe.unbindable) # "True"

\* C11 as stated, for every pair: if the preferred port is claimed by
\* another allocation or fails the bind test, a port that allocate returns
\* differs from it and lies in the service's range or in the default range.
C11_AnyPair ==
    [][(/\ last'.op = "allocate" /\ last'.branch \notin {"error", "overflow"}
        /\ PreferredElided(allocations, last'))
       => /\ last'.port # last'.preferred_port
          /\ LET rng == get_port_range(last'.service)
                 def == get_port_range("default")
             IN \/ last'.port \in rng.start..rng.end
                \/ last'.port \in def.start..def.end]_vars

\* C11, for a pair without a row: if the preferred port is claimed by another
\* allocation or fails the bind test, allocate leaves the preferred branch
\* and a port it returns lies in the service's range (range branch) or in
\* the default range (fallback); it differs from a claimed preferred port,
\* and it is the preferred port only when the loop's own bind test of that
\* port, made after the failed one, succeeded.
C11_PreferredElision ==
    [][(/\ last'.op = "allocate"
        /\ RowsOf(last'.context_hash, last'.service) = {}
        /\ PreferredElided(allocations, last'))
       => LET rng == get_port_range(last'.service)
              def == get_port_range("default")
              returned == last'.branch \in {"range", "default"}
          IN /\ last'.branch \in {"range", "default", "error", "overflow"}
             /\ last'.branch = "range" => last'.port \in rng.start..rng.end
             /\ last'.branch = "default" => last'.port \in def.start..def.end
             /\ (returned /\ last'.preferred_port \in get_all_allocated_ports)
                => last'.port # last'.preferred_port
             /\ (returned /\ last'.port = last'.preferred_port)
                => /\ last'.preferred_port \in last'.probe.unbindable
                   /\ last'.preferred_port \notin ReturnProbe(last').unbindable
             /\ (returned /\ last'.preferred_port
                                \in ReturnProbe(last').unbindable)
                => last'.port # last'.preferred_port]_vars

\* A pair without a row asked for a port that a row of another pair holds
\* and got another port of a range, from a loop during which the host
\* answered otherwise than at the test of the preferred port.
C11_ClaimedElided ==
    /\ last.op = "allocate" /\ last.branch \in {"range", "default"}
    /\ RowsOf(last.context_hash, last.service) = {}
    /\ last.preferred_port \in get_all_allocated_ports
    /\ last.port # last.preferred_port
    /\ ReturnProbe(last).unbindable # last.probe.unbindable

\* A pair without a row asked for a port that the host refused to bind at
\* the test of the preferred port, and the scan of the range, whose bind of
\* that port succeeded, returned it.
C11_Witness ==
    /\ last.op = "allocate" /\ last.branch \in {"range", "default"}
    /\ RowsOf(last.context_hash, last.service) = {}
    /\ last.preferred_port \notin get_all_allocated_ports
    /\ last.preferred_port \in last.probe.unbindable
    /\ last.preferred_port \notin ReturnProbe(last).unbindable
    /\ last.port = last.preferred_port

\* ------------------------------------------------- fallback and exhaustion
\* Ranges small enough to be exhausted: two ports for "custom", the next two
\* for "default"; preferred ports inside and outside the default range; a
\* probe that blocks the first port of the default range and one that blocks
\* both.
FallbackRange == [custom |-> <<7000, 7001>>, default |-> <<7002, 7003>>]
FallbackPreferred == {NoPort, 7003, 7004, 70000}
FallbackProbes ==
    {NoProbe,
     [listening |-> {7002}, unbindable |-> {}],
     [listening |-> {7002}, unbindable |-> {7002, 7003}]}

FallbackUnbindables == {pr.unbindable : pr \in FallbackProbes}

NextFallback ==
    \/ \E s \in RangeServices, c \in Contexts, pp \in FallbackPreferred,
          pr \in FallbackProbes : AllocBegin("p1", s, c, pp, pr)
    \/ AllocTouch("p1")
    \/ AllocCollect("p1")
    \/ \E u \in FallbackUnbindables : AllocSelect("p1", u)
    \/ \E u \in FallbackUnbindables : AllocSelectDefault("p1", u)
    \/ \E c \in Contexts, s \in RangeServices, port \in CreatePorts :
            NoCall /\ CreateAllocation(Checkout[c], s, port)
    \/ \E s \in RangeServices :
            NoCall /\ SetRange(s, FallbackRange[s][1], FallbackRange[s][2])

SpecFallback == Init /\ [][NextFallback]_vars

\* No port of start..end is free of rows, of listeners and bindable.
NoneFree(start, end, held, probe) ==
    \A q \in start..end : ~FreeIn(q, held, probe)

\* A configured, non-default service whose whole range is held by rows is
\* asked for by a pair without a row.
RangeClaimed(rows, l) ==
    /\ l.op = "allocate" /\ l.service # "default"
    /\ l.service \in DOMAIN port_ranges
    /\ \A a \in rows : ~(a.context_hash = l.context_hash /\ a.service = l.service)
    /\ port_ranges[l.service][1]..port_ranges[l.service][2]
            \subseteq {a.port : a \in rows}

\* C12 as stated, whatever the preferred port: once the range of a configured
\* non-default service is fully claimed, an allocate for a new pair that
\* succeeds returns the lowest available port of the default range.
C12_AnyPreferred ==
    [][RangeClaimed(allocations, last')
       => LET def == get_port_range("default")
              held == get_all_allocated_ports
          IN last'.branch \notin {"error", "overflow"}
             => /\ last'.port \in def.start..def.end
                /\ FreeIn(last'.port, held, ScanProbe(last', "default"))
                /\ NoneFree(def.start, last'.port - 1, held, ScanProbe(last', "default"))]_vars

\* C12, without a usable preferred port: once the range of a configured
\* non-default service is fully claimed, allocate for a new pair returns the
\* lowest available port of the default range, which is no port of the
\* claimed range, and fails only if the default range has no available port.
C12_Fallback ==
    [][(/\ RangeClaimed(allocations, last')
        /\ \/ last'.preferred_port = NoPort
           \/ ~FreeIn(last'.preferred_port, get_all_allocated_ports, last'.probe))
       => LET def == get_port_range("default")
              rng == get_port_range(last'.service)
              held == get_all_allocated_ports
          IN /\ last'.branch \in {"default", "error", "overflow"}
             /\ last'.branch = "default"
                => /\ last'.port \in def.start..def.end
                   /\ last'.port \notin rng.start..rng.end
                   /\ FreeIn(last'.port, held, ScanProbe(last', "default"))
                   /\ NoneFree(def.start, last'.port - 1, held, ScanProbe(last', "default"))
             /\ last'.branch = "error"
                => NoneFree(def.start, def.end, held, ScanProbe(last', "default"))]_vars

\* The fallback passed over a listening port of the default range while the
\* service's own range was fully claimed.
C12_Witness ==
    /\ RangeClaimed(allocations, last)
    /\ last.branch = "default"
    /\ last.port - 1 \in last.probe.listening
    /\ last.port - 1 >= get_port_range("default").start

\* C13: for a pair without a row and without a usable preferred port,
\* allocate raises exactly when the service's range has no available port
\* and, for a service other than "default", the default range has none
\* either; for the service "default" the answer comes from the one scan of
\* its range and never from the fallback.
C13_Exhaustion ==
    [][(/\ last'.op = "allocate"
        /\ RowsOf(last'.context_hash, last'.service) = {}
        /\ \/ last'.preferred_port = NoPort
           \/ ~FreeIn(last'.preferred_port, get_all_allocated_ports, last'.probe))
       => LET def == get_port_range("default")
              rng == get_port_range(last'.service)
              held == get_all_allocated_ports
          IN /\ last'.branch = "error"
                <=> /\ NoneFree(rng.start, rng.end, held,
                                ScanProbe(last', "service"))
                    /\ last'.service # "default"
                        => NoneFree(def.start, def.end, held,
                                    ScanProbe(last', "default"))
             /\ last'.service = "default"
                => last'.branch \in {"range", "error"}]_vars

\* ------------------------------------------------------------------ ranges
\* set_port_range and get_port_range with ordered, inverted and one-port
\* bounds, for a seeded service, an unseeded one and "default", next to
\* allocations that the range operations must leave alone.
RangePairs == {<<7000, 7001>>, <<7002, 7003>>, <<7001, 7000>>, <<7000, 7000>>}

NextRanges ==
    \/ \E s \in RangeServices, r \in RangePairs :
            pending["p1"] = None /\ SetRange(s, r[1], r[2])
    \/ \E s \in RangeServices, r \in RangePairs :
            pending["p1"] = None /\ ConfigSetRange(s, r[1], r[2])
    \/ \E s \in Services : GetRangeFirst("p1", s)
    \/ GetRangeSecond("p1")
    \/ \E c \in Contexts, port \in CreatePorts :
            CreateAllocation(Checkout[c], "custom", port)

SpecRanges == Init /\ [][NextRanges]_vars

\* C14: get_port_range never fails and always answers with a range: the
\* service's own row if it has one, else the stored "default" row, else the
\* hardcoded 10000-19999; for a service without a row the bounds are those
\* of the current "default" range, also after set_port_range overwrote it.
C14_GetRangeTotal ==
    [][last'.op = "get_range" =>
        LET s == last'.service
            r == last'.result
        IN /\ last'.ok
           /\ DOMAIN r = {"service", "start", "end"}
           /\ s \in DOMAIN port_ranges
              => r = [service |-> s, start |-> port_ranges[s][1],
                      end |-> port_ranges[s][2]]
           /\ (s \notin DOMAIN port_ranges /\ "default" \in DOMAIN port_ranges)
              => r = [service |-> "default",
                      start |-> port_ranges["default"][1],
                      end |-> port_ranges["default"][2]]
           /\ (s \notin DOMAIN port_ranges /\ "default" \notin DOMAIN port_ranges)
              => r = [service |-> "default", start |-> 10000, end |-> 19999]
           /\ s \notin DOMAIN port_ranges
              => /\ r.start = get_port_range("default").start
                 /\ r.end = get_port_range("default").end]_vars

\* C15: set_port_range with start >= end leaves the stored ranges unchanged,
\* and every stored range has start < end in every reachable state.
C15_InvalidRangeRejected ==
    [][/\ (last'.op = "set_range" /\ last'.start >= last'.end)
          => port_ranges' = port_ranges
       /\ \A s \in DOMAIN port_ranges' :
            port_ranges'[s][1] < port_ranges'[s][2]]_vars

\* C16: set_port_range(s, a, b) with a < b inserts or overwrites the row of
\* s, so that get_port_range(s) then answers (s, a, b); the rows of the other
\* services and the allocations are unchanged.
C16_Upsert ==
    [][\A s \in RangeServices :
        (last'.op = "set_range" /\ last'.service = s /\ last'.start < last'.end)
        => /\ get_port_range(s)' =
                [service |-> s, start |-> last'.start, end |-> last'.end]
           /\ DOMAIN port_ranges' = DOMAIN port_ranges \cup {s}
           /\ \A t \in DOMAIN port_ranges \ {s} :
                port_ranges'[t] = port_ranges[t]
           /\ allocations' = allocations
           /\ seq' = seq]_vars

\* A second set_port_range for "custom" replaced its bounds while "default"
\* keeps the bounds it was given and an allocation exists.
C16_Witness ==
    /\ last.op = "set_range" /\ last.service = "custom"
    /\ port_ranges["custom"] = <<7002, 7003>>
    /\ port_ranges["default"] = <<7000, 7001>>
    /\ allocations # {}

\* ------------------------------------------------- immutability and touch
\* C17: id, context_hash, service, port and created_at of a row are the same
\* in every state from its insert to its delete: no step changes them for an
\* id that exists before and after the step, and an id is never given to a
\* second row.
C17_FieldsImmutable ==
    [][/\ \A a \in allocations : \A b \in allocations' :
            a.id = b.id
            => /\ b.context_hash = a.context_hash
               /\ b.service = a.service
               /\ b.port = a.port
               /\ b.created_at = a.created_at
       /\ \A b \in allocations' :
            (\A a \in allocations : a.id # b.id) => b.id > seq]_vars

\* allocate touched the existing row of a pair at a later time than its
\* insert, after an earlier row had been deleted.
C17_Witness ==
    /\ last.op = "allocate" /\ last.branch = "existing"
    /\ Cardinality(allocations) < seq
    /\ \E a \in RowsOf(last.context_hash, last.service) :
        /\ a.last_accessed_at # a.created_at
        /\ a.port = last.port

\* C18: touch_allocation(id) changes last_accessed_at of the row with that
\* id and nothing else: the other rows, the other fields of the row, the
\* ranges and the id counter keep their values; for an id without a row
\* nothing changes.
C18_TouchOnly ==
    [][last'.op = "touch" =>
        /\ {a \in allocations : a.id # last'.id}
            = {b \in allocations' : b.id # last'.id}
        /\ {Immutable(a) : a \in allocations}
            = {Immutable(b) : b \in allocations'}
        /\ Cardinality(allocations') = Cardinality(allocations)
        /\ (\A a \in allocations : a.id # last'.id)
           => allocations' = allocations
        /\ port_ranges' = port_ranges
        /\ seq' = seq]_vars

\* Of two rows inserted at the same time, one was touched later and the
\* other still has the time of its insert.
C18_Witness ==
    /\ last.op = "touch"
    /\ \E a, b \in allocations :
        /\ a.id = last.id /\ b.id # last.id
        /\ a.created_at = b.created_at
        /\ a.last_accessed_at = datetime_now
        /\ b.last_accessed_at = b.created_at
        /\ a.last_accessed_at # b.last_accessed_at

\* ------------------------------------------------------------------ Pruner
\* Pruner.prune and Pruner.prune_stale, dry and not, over allocations made
\* on two days for directories that exist or not. While a Pruner call runs
\* no other process writes, no directory changes and the clock stands.
PruneMaxTime == 2 * TicksPerDay - 1
StaleDays == {0, 1}

NextPrune ==
    \/ pruner.pc = "idle" /\ TickTo(PruneMaxTime)
    \/ \E d \in RepoDirs : pruner.pc = "idle" /\ PathChange(d)
    \/ \E d \in RepoDirs, port \in CreatePorts :
            pruner.pc = "idle" /\ CreateAllocation(d, "custom", port)
    \/ \E d \in BOOLEAN : PruneStart(d)
    \/ PruneCheck
    \/ \E fail \in BOOLEAN : PruneDelete(fail)
    \/ \E days \in StaleDays, d \in BOOLEAN, z \in UtcOffsets :
            StaleStart(days, d, z)
    \/ StaleSelect
    \/ \E fail \in BOOLEAN : StaleStep(fail)
    \/ PrunerDone

SpecPrune == Init /\ [][NextPrune]_vars

\* The records of a list of a PruneResult.
SeqRange(q) == {q[i] : i \in 1..Len(q)}

\* C19: a dry run of prune or prune_stale changes no allocation and no
\* range, and the `removed` it returns is what a run that is not dry
\* deletes: the rows whose context_path does not exist (prune), the rows
\* that get_stale_allocations selects (prune_stale). A run that is not dry
\* and meets no failure has deleted exactly those rows of its list when it
\* returns.
C19_DryRun ==
    [][/\ (/\ pruner'.dry_run
           /\ last'.op \in {"prune_start", "prune_check", "prune_delete",
                            "stale_cutoff", "stale_start", "stale_step"})
          => /\ allocations' = allocations
             /\ port_ranges' = port_ranges
             /\ seq' = seq
       /\ (pruner.pc # "returned" /\ pruner'.pc = "returned"
           /\ pruner'.dry_run)
          => /\ Len(pruner'.removed) = Cardinality(SeqRange(pruner'.removed))
             /\ pruner'.kind = "prune"
                => SeqRange(pruner'.removed)
                   = {a \in allocations' : a.context_path \notin paths'}
             /\ \A d \in StaleDays, z \in UtcOffsets :
                  (/\ pruner'.kind = "stale" /\ pruner'.days = d
                   /\ pruner'.utc_offset = z)
                  => SeqRange(pruner'.removed) = StaleRows(d, z)'
       /\ \A d \in StaleDays, z \in UtcOffsets :
            (last'.op = "stale_start" /\ last'.days = d /\ last'.utc_offset = z)
            => /\ pruner'.read = StaleRowsAt(pruner.cutoff)
               /\ pruner'.read = StaleRows(d, z)
       /\ (pruner.pc # "returned" /\ pruner'.pc = "returned"
           /\ ~pruner'.dry_run /\ pruner'.errors = <<>>)
          => /\ pruner'.kind = "prune"
                => pruner'.read \ allocations'
                   = {a \in pruner'.read : a.context_path \notin paths'}
             /\ pruner'.kind = "stale"
                => pruner'.read \ allocations' = pruner'.read]_vars

\* A dry run of prune returned one allocation in `removed` and one in
\* `kept`, and both rows are still in the Registry.
C19_Witness ==
    /\ pruner.pc = "returned" /\ pruner.kind = "prune" /\ pruner.dry_run
    /\ Len(pruner.removed) = 1 /\ Len(pruner.kept) = 1
    /\ SeqRange(pruner.removed) \cup SeqRange(pruner.kept) = allocations

\* C20: when prune returns without an error and nothing else wrote during
\* the call, `removed` holds exactly the rows it read whose context_path
\* does not exist and `kept` exactly those whose path exists, whatever their
\* age; after a run that is not dry the Registry holds exactly the rows of
\* `kept`.
C20_Classification ==
    (pruner.pc = "returned" /\ pruner.kind = "prune" /\ pruner.errors = <<>>)
    => /\ SeqRange(pruner.removed)
          = {a \in pruner.read : a.context_path \notin paths}
       /\ SeqRange(pruner.kept)
          = {a \in pruner.read : a.context_path \in paths}
       /\ Len(pruner.removed) + Len(pruner.kept) = Cardinality(pruner.read)
       /\ ~pruner.dry_run => allocations = SeqRange(pruner.kept)

\* prune, not dry, deleted the allocation of a removed directory and kept
\* an older one whose directory exists.
C20_Witness ==
    /\ pruner.pc = "returned" /\ pruner.kind = "prune" /\ ~pruner.dry_run
    /\ pruner.errors = <<>>
    /\ Len(pruner.removed) = 1 /\ Len(pruner.kept) = 1
    /\ allocations = SeqRange(pruner.kept)
    /\ pruner.kept[1].created_at[1] < pruner.removed[1].created_at[1]

\* ------------------------------------------------------ Pruner, failures
\* Pruner.prune over allocations of directories that exist or not, where
\* the orphan test or the delete of any record may raise.
NextPruneErr ==
    \/ \E d \in Dirs : pruner.pc = "idle" /\ PathChange(d)
    \/ \E d \in Dirs, port \in CreatePorts :
            pruner.pc = "idle" /\ CreateAllocation(d, "custom", port)
    \/ \E d \in BOOLEAN : PruneStart(d)
    \/ PruneCheck
    \/ \E fail \in BOOLEAN : PruneDelete(fail)
    \/ PruneCheckFails
    \/ PrunerDone

SpecPruneErr == Init /\ [][NextPruneErr]_vars

\* C21: in prune, a pass of the loop whose orphan test or delete raises adds
\* one entry to `errors`, deletes nothing and moves on to the next record of
\* the list; a pass that does not raise puts the record in `removed`
\* (deleting it outside a dry run) if its path is missing and in `kept`
\* otherwise, whatever failed before it; the call returns when the list is
\* done and never ends with an exception.
C21_ErrorIsolation ==
    [][last'.op \in {"prune_check", "prune_delete"} =>
        LET alloc == Head(pruner.todo)
            orphan == alloc.context_path \notin paths
            deletes == last'.op = "prune_delete"
            next_pc == IF Tail(pruner.todo) = <<>> THEN "returned" ELSE "run"
        IN /\ last'.id = alloc.id
           /\ pruner'.pc # "raised"
           /\ last'.fail
              => /\ Len(pruner'.errors) = Len(pruner.errors) + 1
                 /\ pruner'.errors[Len(pruner'.errors)][1] = alloc.context_label
                 /\ SubSeq(pruner'.errors, 1, Len(pruner.errors)) = pruner.errors
                 /\ pruner'.removed = pruner.removed
                 /\ pruner'.kept = pruner.kept
                 /\ allocations' = allocations
                 /\ pruner'.todo = Tail(pruner.todo)
                 /\ pruner'.pc = next_pc
           /\ ~last'.fail
              => /\ pruner'.errors = pruner.errors
                 /\ (~deletes /\ orphan /\ ~pruner.dry_run)
                    => /\ pruner'.pc = "delete"
                       /\ pruner'.todo = pruner.todo
                       /\ pruner'.removed = pruner.removed
                       /\ pruner'.kept = pruner.kept
                       /\ allocations' = allocations
                 /\ (~deletes /\ orphan /\ pruner.dry_run)
                    => /\ pruner'.removed = Append(pruner.removed, alloc)
                       /\ pruner'.kept = pruner.kept
                       /\ allocations' = allocations
                       /\ pruner'.todo = Tail(pruner.todo)
                       /\ pruner'.pc = next_pc
                 /\ (~deletes /\ ~orphan)
                    => /\ pruner'.kept = Append(pruner.kept, alloc)
                       /\ pruner'.removed = pruner.removed
                       /\ allocations' = allocations
                       /\ pruner'.todo = Tail(pruner.todo)
                       /\ pruner'.pc = next_pc
                 /\ deletes
                    => /\ pruner'.removed = Append(pruner.removed, alloc)
                       /\ pruner'.kept = pruner.kept
                       /\ allocations' = allocations \ {alloc}
                       /\ pruner'.todo = Tail(pruner.todo)
                       /\ pruner'.pc = next_pc]_vars

\* prune returned after the delete of its first record raised: the record
\* is still in the Registry and the second record, an orphan, is deleted.
C21_Witness ==
    /\ pruner.pc = "returned" /\ pruner.kind = "prune" /\ ~pruner.dry_run
    /\ last.op = "prune_delete"
    /\ Len(pruner.errors) = 1 /\ pruner.errors[1][1] = "app/main"
    /\ Len(pruner.removed) = 1 /\ pruner.removed[1].context_hash = "ctxB"
    /\ pruner.removed[1] \notin allocations
    /\ \E a \in allocations :
            a.context_hash = "ctxA" /\ a.context_path \notin paths

\* C22: in prune_stale, a delete that raises is recorded in `errors` and the
\* loop goes on with the next stale record; the call does not end with the
\* exception.
C22_StaleNonAborting ==
    [][(last'.op = "stale_step" /\ last'.fail)
       => /\ pruner'.pc # "raised"
          /\ Len(pruner'.errors) = Len(pruner.errors) + 1
          /\ pruner'.todo = Tail(pruner.todo)]_vars

\* A timestamp as a number of ticks, and the rows last accessed before, or
\* not after, the tick that lies `days` days before now.
TicksOf(ts) == ts[1] * TicksPerDay + ts[2]
AccessedBefore(days) ==
    {a \in allocations : TicksOf(a.last_accessed_at) < now - days * TicksPerDay}
AccessedUpTo(days) ==
    {a \in allocations : TicksOf(a.last_accessed_at) <= now - days * TicksPerDay}

\* C23: the list prune_stale(days) reads and deletes holds every row last
\* accessed before now - days and no row accessed after it, a row accessed
\* later on the day of the cutoff included, whether the path exists or not.
C23_StaleChronological ==
    [][\A d \in StaleDays :
        (last'.op = "stale_start" /\ last'.days = d)
        => /\ AccessedBefore(d) \subseteq pruner'.read
           /\ pruner'.read \subseteq AccessedUpTo(d)]_vars

\* ----------------------------------------------------- Pruner and writers
\* Pruner.prune and Pruner.prune_stale, not dry, while other processes touch
\* allocations, directories come and go and the clock runs between any two
\* Registry operations of the Pruner.
RaceOffsets == {0, 1}
NextPruneRace ==
    \/ TickTo(PruneMaxTime)
    \/ PathChange("clone1")
    \/ \E c \in Contexts, port \in CreatePorts :
            pruner.pc = "idle" /\ CreateAllocation(Checkout[c], "custom", port)
    \/ \E i \in 1..MaxId : Touch(i)
    \/ GetAllocation("ctxA", "custom")
    \/ PruneStart(FALSE)
    \/ PruneCheck
    \/ PruneDelete(FALSE)
    \/ \E days \in StaleDays, z \in RaceOffsets : StaleStart(days, FALSE, z)
    \/ StaleSelect
    \/ StaleStep(FALSE)
    \/ PrunerDone

SpecPruneRace == Init /\ [][NextPruneRace]_vars

\* C24: a row that prune or prune_stale deletes meets the criterion of the
\* call in the state in which it is deleted: its context_path does not
\* exist (prune), get_stale_allocations(days) would select it (prune_stale);
\* so a row touched after prune_stale read its list is not deleted.
C24_RetiredAtDelete ==
    [][last'.op \in {"prune_delete", "stale_step"} =>
        \A a \in allocations \ allocations' :
            /\ pruner.kind = "prune" => a.context_path \notin paths
            /\ \A d \in StaleDays, z \in UtcOffsets :
                (pruner.kind = "stale" /\ pruner.days = d /\ pruner.utc_offset = z)
                => a \in StaleRows(d, z)]_vars

\* ------------------------------------------------------- probe degradation
\* allocate on hosts where ports listen, with scanning tools that answer,
\* time out or are missing, against rows that hold ports of the scanned range.
ToolRuns ==
    {<<"ok", "ok", "ok">>, <<"timeout", "ok", "ok">>,
     <<"missing", "missing", "ok">>, <<"timeout", "timeout", "timeout">>,
     <<"missing", "missing", "missing">>, <<"timeout", "missing", "timeout">>}
Hosts ==
    {NoProbe,
     [listening |-> {7000}, unbindable |-> {7000}],
     [listening |-> {7000, 7001}, unbindable |-> {}]}

HostUnbindables == {h.unbindable : h \in Hosts}

NextProbe ==
    \/ \E c \in Contexts, pp \in AllocPreferred, t \in ToolRuns, h \in Hosts :
            AllocBegin("p1", "custom", c, pp, HostProbe(t, h))
    \/ AllocTouch("p1")
    \/ AllocCollect("p1")
    \/ \E u \in HostUnbindables : AllocSelect("p1", u)
    \/ \E u \in HostUnbindables : AllocSelectDefault("p1", u)
    \/ \E c \in Contexts, s \in RangeServices, port \in CreatePorts :
            NoCall /\ CreateAllocation(Checkout[c], s, port)
    \/ \E s \in RangeServices, r \in RangeChoices :
            NoCall /\ SetRange(s, r[1], r[2])

SpecProbe == Init /\ [][NextProbe]_vars

\* No tool ran to its end: each timed out or is missing.
Degraded(tools) == \A i \in 1..3 : tools[i] \in {"timeout", "missing"}

\* C26: when every scanning tool times out or is missing, the set of
\* listening ports allocate works with is empty whatever listens on the
\* host, allocate still ends (by a return or by one of the two exceptions it
\* can raise with working tools as well), and a port it returns for a pair
\* without a row is held by no row.
C26_ProbeDegraded ==
    [][(last'.op = "allocate" /\ Degraded(last'.probe.tools))
       => /\ last'.probe.listening = {}
          /\ last'.branch \in {"existing", "preferred", "range", "default",
                              "error", "overflow"}
          /\ (RowsOf(last'.context_hash, last'.service) = {}
              /\ last'.branch \notin {"error", "overflow"})
             => /\ last'.port \notin get_all_allocated_ports
                /\ last'.port \notin ReturnProbe(last').unbindable]_vars

\* With no tool left, allocate passed over the port a row holds and returned
\* the next port of the range, a port that listens on the host but accepts
\* the bind.
C26_Witness ==
    /\ last.op = "allocate" /\ Degraded(last.probe.tools)
    /\ last.branch = "range"
    /\ last.port - 1 \in get_all_allocated_ports
    /\ last.port \in last.probe.host.listening
    /\ last.probe.listening = {}

\* --------------------------------------------------- get_port_range, races
\* get_port_range by two processes, statement by statement, while
\* set_port_range commits between any two statements.
RacePairs == {<<7000, 7001>>, <<8000, 8001>>}

NextRangeRace ==
    \/ \E p \in Procs, s \in RangeServices : GetRangeFirst(p, s)
    \/ \E p \in Procs : GetRangeSecond(p)
    \/ \E s \in RangeServices, r \in RacePairs : SetRangeObserved(s, r[1], r[2])

SpecRangeRace == Init /\ [][NextRangeRace]_vars

\* What get_port_range(service) answers when both lookups read the table
\* `ranges`.
RangeIn(ranges, service) ==
    IF service \in DOMAIN ranges
    THEN [service |-> service,
          start |-> ranges[service][1], end |-> ranges[service][2]]
    ELSE IF "default" \in DOMAIN ranges
    THEN [service |-> "default",
          start |-> ranges["default"][1], end |-> ranges["default"][2]]
    ELSE [service |-> "default", start |-> 10000, end |-> 19999]

\* C25: every Registry operation takes effect at one point between its call
\* and its return; for get_port_range, the answer is the answer that one of
\* the Registry states between its call and its return gives.
C25_GetRangeOneState ==
    last.op = "get_range"
    => \E ranges \in last.seen : last.result = RangeIn(ranges, last.service)

\* ------------------------------------------------------ opening a Registry
\* Two processes construct a Database on a file that does not exist yet,
\* statement by statement, and use it.
InitFresh ==
    /\ allocations = {}
    /\ seq = 0
    /\ port_ranges = [s \in {} |-> <<0, 0>>]
    /\ now = 0
    /\ pending = [p \in Procs |-> None]
    /\ paths = {get_context(d).path : d \in Dirs}
    /\ pruner = PrunerIdle
    /\ tables = {}
    /\ lock = LockFree
    /\ last = [op |-> "init"]

NextOpen ==
    \/ \E p \in Procs : OpenCheck(p)
    \/ \E p \in Procs : OpenScript(p)
    \/ \E p \in Procs : OpenedList(p)
    \/ \E p \in Procs, s \in {"postgres", "kafka", "custom"} :
            OpenedRangeFirst(p, s)
    \/ \E p \in Procs : OpenedRangeSecond(p)
    \/ \E p \in Procs : ProcessExit(p)

SpecOpen == InitFresh /\ [][NextOpen]_vars

\* C27: when processes open a Registry that does not exist yet, every
\* construction succeeds, and a process whose construction is done finds
\* all three tables and every default range; the defaults are never
\* overwritten by a later construction.
C27_SeededOnce ==
    /\ \A p \in Procs :
        pending[p] # None
        => /\ pending[p].status # "open_failed"
           /\ pending[p].status \in {"opened", "opened_select"}
              => /\ tables = AllTables
                 /\ DOMAIN DefaultRanges \subseteq DOMAIN port_ranges
    /\ \A s \in DOMAIN port_ranges : port_ranges[s] = DefaultRanges[s]

\* ------------------------------------------------------------ the deletes
\* C28: delete_allocations_by_context(c) removes every row of c and no
\* other row, returns the number of rows it removed, leaves port_ranges
\* alone, and get_allocations_by_context(c) is empty afterwards.
C28_DeleteByContext ==
    [][\A c \in Contexts :
        (last'.op = "delete_context" /\ last'.context_hash = c) =>
           /\ allocations' \subseteq allocations
           /\ \A a \in allocations :
                (a \in allocations') <=> (a.context_hash # c)
           /\ last'.count = Cardinality(allocations \ allocations')
           /\ last'.count = Cardinality({a \in allocations : a.context_hash = c})
           /\ port_ranges' = port_ranges
           /\ seq' = seq
           /\ (get_allocations_by_context(c))' = <<>>]_vars

\* A context with two rows was deleted while the other context had none, or
\* a context with one row was deleted and the other context's row stayed.
C28_Witness ==
    /\ last.op = "delete_context"
    /\ last.count = 1
    /\ allocations # {}

\* C29: delete_allocation_by_service(c, s) returns True exactly when the
\* pair had a row, and that row is then gone and no other; a second call
\* would return False and change nothing.  delete_allocation of an id
\* without a row changes nothing; after either delete get_allocation of the
\* pair that was deleted is None.
C29_DeleteByService ==
    [][\A c \in Contexts, s \in Services :
        /\ (last'.op = "delete_service" /\ last'.context_hash = c
                /\ last'.service = s) =>
               /\ last'.deleted <=> RowsOf(c, s) # {}
               /\ allocations' = allocations \ RowsOf(c, s)
               /\ ~last'.deleted => allocations' = allocations
               /\ (delete_allocation_by_service(c, s))'
                    = [allocations |-> allocations', deleted |-> FALSE]
               /\ (get_allocation(c, s))' = None
               /\ port_ranges' = port_ranges
        /\ last'.op = "delete" =>
            LET gone == {a \in allocations : a.id = last'.id}
            IN /\ gone = {} => allocations' = allocations
               /\ allocations' = allocations \ gone
               /\ (\E a \in gone : a.context_hash = c /\ a.service = s)
                    => (get_allocation(c, s))' = None
               /\ port_ranges' = port_ranges]_vars

\* delete_allocation_by_service removed the row of a pair, one row stayed,
\* and the call returned True.
C29_Witness ==
    /\ last.op = "delete_service"
    /\ last.deleted
    /\ allocations # {}
    /\ RowsOf(last.context_hash, last.service) = {}

\* ------------------------------------------------------ allocate, one pass
\* One caller of allocate while other processes book ports and set ranges
\* between its Registry calls; the ranges are small enough to be exhausted,
\* and one lies above the ports a socket takes.
NextPass ==
    \/ \E s \in RangeServices, c \in Contexts, pp \in FallbackPreferred,
          pr \in FallbackProbes : AllocBegin("p1", s, c, pp, pr)
    \/ AllocTouch("p1")
    \/ AllocCollect("p1")
    \/ \E u \in FallbackUnbindables : AllocSelect("p1", u)
    \/ \E u \in FallbackUnbindables : AllocSelectDefault("p1", u)
    \/ \E c \in Contexts, s \in RangeServices, port \in CreatePorts :
            CreateAllocation(Checkout[c], s, port)
    \/ \E s \in RangeServices :
            SetRange(s, FallbackRange[s][1], FallbackRange[s][2])
    \/ SetRange("custom", MaxPort + 1, MaxPort + 2)

\* The next Registry call of the allocate call of p.
AllocStep(p) ==
    \/ AllocTouch(p)
    \/ AllocCollect(p)
    \/ \E u \in FallbackUnbindables : AllocSelect(p, u)
    \/ \E u \in FallbackUnbindables : AllocSelectDefault(p, u)

\* A call that has started runs on: the process that called allocate is not
\* suspended for ever, whatever the other processes do.
SpecPass == Init /\ [][NextPass]_vars /\ WF_vars(AllocStep("p1"))

\* C30: a call of allocate enters the loop over the service range at most
\* once and the loop over the default range at most once; it ends with the
\* return of a port or with the exhaustion error, which is raised only after
\* the one scan of the service range and (for a service other than
\* "default") the one scan of the default range; and every call that has
\* started comes to its end, whatever other processes write meanwhile.
C30_SinglePass ==
    /\ [][last'.op = "allocate" =>
            /\ last'.service_scans <= 1
            /\ last'.default_scans <= 1
            /\ last'.branch \in {"existing", "preferred", "range", "default",
                                 "error"}
            /\ last'.branch # "error" => last'.port # NotFound
            /\ last'.branch = "error"
                => /\ last'.service_scans = 1
                   /\ last'.default_scans
                        = (IF last'.service = "default" THEN 0 ELSE 1)]_vars
    /\ (pending["p1"] # None) ~> (pending["p1"] = None)

\* ------------------------------------------------- the book and get flows
\* `portman release SERVICE` between two bookings.
Release(context_hash, service) ==
    /\ allocations' = delete_allocation_by_service(context_hash, service).allocations
    /\ last' = [op |-> "release", service |-> service,
                context_hash |-> context_hash]
    /\ UNCHANGED <<seq, port_ranges, now, pending, paths, pruner, tables, lock>>

BookProbes ==
    {NoProbe, [listening |-> {5432}, unbindable |-> {5433}],
     [listening |-> {10000}, unbindable |-> {}]}
BookPreferred == {NoPort, 5433}
BookUnbindables == {pr.unbindable : pr \in BookProbes}

\* The lists of services discover_services finds in the directories.
BookLists == {<<"postgres", "pgadmin">>, <<"PGweb", "web">>}

\* One process runs book, get, export and release commands one after the
\* other, and nothing else writes.
NextBook ==
    \/ \E op \in {"book", "get", "get --no-book"}, c \in Contexts,
          n \in BookNames, pp \in BookPreferred, pr \in BookProbes :
            BookBegin("p1", op, Checkout[c], <<n>>, pp, pr)
    \/ \E op \in AutoOps, c \in Contexts, ns \in BookLists, pr \in BookProbes :
            BookBegin("p1", op, Checkout[c], ns, NoPort, pr)
    \/ \E pr \in BookProbes : BookNext("p1", pr)
    \/ ExportList("p1")
    \/ GetTouch("p1")
    \/ AllocCall("p1")
    \/ AllocTouch("p1")
    \/ AllocCollect("p1")
    \/ \E u \in BookUnbindables : AllocSelect("p1", u)
    \/ Commit("p1")
    \/ ProcessExit("p1")
    \/ \E c \in Contexts, n \in BookNames :
            pending["p1"] = None /\ Release(c, n)
    \/ pending["p1"] = None /\ Tick

SpecBook == Init /\ [][NextBook]_vars

\* C31: a book or get command for a name without a row in the context never
\* ends with the conflict error of create_allocation.
C31_BookNeverConflicts ==
    [][last'.op \in {"book", "get", "book --auto"}
       => last'.outcome # "conflict"]_vars

\* ------------------------------------------- Pruner and concurrent bookings
\* Pruner.prune and Pruner.prune_stale, not dry, while other processes
\* release and book allocations between any two Registry operations of the
\* Pruner, also for the context, service and port of a row the Pruner read.
NextPruneNew ==
    \/ \E d \in RepoDirs : PathChange(d)
    \/ \E d \in RepoDirs, port \in CreatePorts : CreateAllocation(d, "custom", port)
    \/ \E c \in Contexts : DeleteByService(c, "custom")
    \/ PruneStart(FALSE)
    \/ PruneCheck
    \/ PruneDelete(FALSE)
    \/ \E days \in StaleDays, z \in UtcOffsets : StaleStart(days, FALSE, z)
    \/ StaleSelect
    \/ StaleStep(FALSE)
    \/ PrunerDone

SpecPruneNew == Init /\ [][NextPruneNew]_vars

\* The ids of the rows the running Pruner call read.
ReadIds == {r.id : r \in pruner.read}

\* C32: every row a pass of prune or prune_stale deletes is a row of the list
\* the call read (the same id, context, service, port and creation time),
\* and a row whose id is not in that list, created after the read, is still
\* in the Registry after the pass.
C32_SnapshotOnly ==
    [][last'.op \in {"prune_delete", "stale_step"} =>
        /\ \A a \in allocations \ allocations' :
                \E r \in pruner.read : Immutable(r) = Immutable(a)
        /\ \A a \in allocations : a.id \notin ReadIds => a \in allocations']_vars

\* A pass of the Pruner deleted by the id of a row it had read, while the
\* Registry holds a row created after the read for the same context, service
\* and port.
C32_Witness ==
    /\ last.op \in {"prune_delete", "stale_step"}
    /\ \E a \in allocations, r \in pruner.read :
            /\ r.id = last.id
            /\ a.id \notin ReadIds
            /\ a.context_hash = r.context_hash
            /\ a.service = r.service
            /\ a.port = r.port

\* ------------------------------------------------------ release and reuse
\* Bookings into a two-port range, the three deletes of release and the
\* deletes of Pruner.prune.
NextRelease ==
    \/ \E d \in RepoDirs, port \in CreatePorts : CreateAllocation(d, "custom", port)
    \/ \E r \in RangeChoices : SetRange("custom", r[1], r[2])
    \/ \E i \in 1..MaxId : DeleteById(i)
    \/ \E c \in Contexts : DeleteByContext(c)
    \/ \E c \in Contexts : DeleteByService(c, "custom")
    \/ \E d \in RepoDirs : pruner.pc = "idle" /\ PathChange(d)
    \/ PruneStart(FALSE)
    \/ PruneCheck
    \/ PruneDelete(FALSE)
    \/ PrunerDone

SpecRelease == Init /\ [][NextRelease]_vars

\* Row a is what the step that set `nxt` as its record of the call was asked
\* to delete.
Targeted(a, nxt) ==
    \/ nxt.op = "delete" /\ nxt.id = a.id
    \/ nxt.op = "delete_context" /\ nxt.context_hash = a.context_hash
    \/ /\ nxt.op = "delete_service"
       /\ nxt.context_hash = a.context_hash
       /\ nxt.service = a.service
    \/ /\ nxt.op = "prune_delete"
       /\ nxt.id = a.id
       /\ ~nxt.fail

\* C33: get_all_allocated_ports is the set of the ports that get_allocation
\* finds for some pair; after release or the Pruner deleted a row its port is
\* not in that set, and allocate, for any pair without a row, on a host
\* where the port is free, returns the port when it is preferred, and a port
\* not above it when it lies in the range of the service.
C33_ReleaseFrees ==
    /\ [](\A q \in CreatePorts :
            q \in get_all_allocated_ports
            <=> \E c \in Contexts, s \in Services :
                    /\ get_allocation(c, s) # None
                    /\ get_allocation(c, s).port = q)
    /\ [][\A a \in allocations :
            Targeted(a, last') =>
                /\ (a.port \notin get_all_allocated_ports)'
                /\ \A c \in Contexts, s \in RangeServices :
                    (get_allocation(c, s) = None)' =>
                        /\ (allocate(s, c, a.port, {}, {}).port = a.port)'
                        /\ (a.port \in get_port_range(s).start
                                        ..get_port_range(s).end
                             => allocate(s, c, NoPort, {}, {}).port
                                    \in get_port_range(s).start..a.port)']_vars

\* release deleted the row of a pair whose port lies in the range of its
\* service, while another row holds the other port of the range.
C33_Witness ==
    /\ last.op = "delete_service"
    /\ last.deleted
    /\ last.service = "custom"
    /\ get_port_range("custom").start = 7000
    /\ allocations # {}
    /\ allocate("custom", last.context_hash, NoPort, {}, {}).port \in CreatePorts

\* ------------------------------------------------- the result of prune
\* The records of the list that prune has been through and that are in
\* neither `removed` nor `kept`.
Unreported ==
    pruner.read \ (SeqRange(pruner.removed) \cup SeqRange(pruner.kept)
                        \cup SeqRange(pruner.todo))

\* C34: while prune runs and when it has returned, `removed` and `kept` hold
\* records of the list it read, no record twice and none in both; every
\* record the loop has been through is in `removed`, in `kept`, or has one
\* entry in `errors` (with its context's label) and is in neither list; and
\* outside a dry run no record of `removed` is still in the Registry.
C34_Accounting ==
    pruner.kind = "prune" =>
        /\ SeqRange(pruner.removed) \cap SeqRange(pruner.kept) = {}
        /\ SeqRange(pruner.removed) \cup SeqRange(pruner.kept) \subseteq pruner.read
        /\ Cardinality(SeqRange(pruner.removed)) = Len(pruner.removed)
        /\ Cardinality(SeqRange(pruner.kept)) = Len(pruner.kept)
        /\ Len(pruner.removed) + Len(pruner.kept) + Len(pruner.errors)
                + Len(pruner.todo) = Cardinality(pruner.read)
        /\ \A d \in Dirs :
                Cardinality({i \in 1..Len(pruner.errors) :
                                pruner.errors[i][1] = get_context(d).label})
                    = Cardinality({a \in Unreported :
                                    a.context_label = get_context(d).label})
        /\ ~pruner.dry_run
                => \A i \in 1..Len(pruner.removed) :
                        pruner.removed[i] \notin allocations

\* A prune that was not a dry run has returned: one record is in `removed`,
\* the delete of the other failed and it is in `errors` only.
C34_Witness ==
    /\ pruner.kind = "prune"
    /\ pruner.pc = "returned"
    /\ ~pruner.dry_run
    /\ Len(pruner.removed) = 1
    /\ Len(pruner.errors) = 1
    /\ Cardinality(allocations) = 1

\* ------------------------------------------------------ the in-process lock
\* Threads of one process calling Registry operations: every public method
\* of Database is `with self._lock, self._get_connection() as conn:` around
\* its statements.  pending[t] is the call of thread t: where it stands, what
\* it was asked, how it ended, and how many calls t has made.
ThreadOver == {"returned", "raised"}
LockOps == {"create", "delete_service", "get"}

\* How many calls thread t has begun.
CallsOf(t) == IF pending[t] = None THEN 0 ELSE pending[t].calls

\* The create_allocation calls that have begun and not yet run their INSERT.
CreatesInFlight ==
    Cardinality({t \in Procs :
        /\ pending[t] # None
        /\ pending[t].op = "create"
        /\ pending[t].status \in {"waiting", "locked"}})

\* Thread t calls a Registry operation and reaches its `with self._lock`.
ThreadCall(t, op, context_hash, port) ==
    /\ pending[t] # None => pending[t].status \in ThreadOver
    /\ CallsOf(t) < MaxCalls
    /\ op = "create" => seq + CreatesInFlight < MaxId
    /\ pending' = [pending EXCEPT ![t] =
            [status |-> "waiting", op |-> op, context_hash |-> context_hash,
             port |-> port, outcome |-> "none", calls |-> CallsOf(t) + 1]]
    /\ last' = [op |-> "thread_call", thread |-> t]
    /\ UNCHANGED <<allocations, seq, port_ranges, now, paths, pruner, tables, lock>>

\* self._lock.__enter__: acquire, possible when no thread holds the lock.
LockAcquire(t) ==
    /\ pending[t] # None
    /\ pending[t].status = "waiting"
    /\ lock = LockFree
    /\ lock' = t
    /\ pending' = [pending EXCEPT ![t] = [@ EXCEPT !.status = "locked"]]
    /\ last' = [op |-> "lock_acquire", thread |-> t]
    /\ UNCHANGED <<allocations, seq, port_ranges, now, paths, pruner, tables>>

\* The statements inside the with block: they commit and the method goes on
\* to its return, or raise (sqlite3.IntegrityError of the INSERT).
LockedExec(t) ==
    /\ pending[t] # None
    /\ pending[t].status = "locked"
    /\ LET f == pending[t]
           ctx == get_context(Checkout[f.context_hash])
           c == create_allocation(f.context_hash, ctx.path, ctx.label,
                                  "custom", f.port)
           d == delete_allocation_by_service(f.context_hash, "custom")
       IN /\ allocations' = CASE f.op = "create" -> c.allocations
                               [] f.op = "delete_service" -> d.allocations
                               [] OTHER -> allocations
          /\ seq' = IF f.op = "create" THEN c.seq ELSE seq
          /\ pending' = [pending EXCEPT ![t] =
                [f EXCEPT !.status = "exit",
                          !.outcome = IF f.op = "create" /\ ~c.ok
                                      THEN "raised" ELSE "ok"]]
    /\ last' = [op |-> "locked_exec", thread |-> t]
    /\ UNCHANGED <<port_ranges, now, paths, pruner, tables, lock>>

\* Mutant: the lock is released by a statement at the end of the block, which
\* an exception skips.
WithExit_OkOnly(outcome) == outcome = "ok"

\* Whether leaving the with block releases the lock: Lock.__exit__ runs on
\* the normal path and when the block raised.
WithExit(outcome) == outcome \in {"ok", "raised"}

\* self._lock.__exit__, then the return or the exception reaches the caller.
LockRelease(t) ==
    /\ pending[t] # None
    /\ pending[t].status = "exit"
    /\ lock' = IF WithExit(pending[t].outcome) THEN LockFree ELSE lock
    /\ pending' = [pending EXCEPT ![t] =
            [@ EXCEPT !.status = IF pending[t].outcome = "raised"
                                 THEN "raised" ELSE "returned"]]
    /\ last' = [op |-> "lock_release", thread |-> t]
    /\ UNCHANGED <<allocations, seq, port_ranges, now, paths, pruner, tables>>

\* The next step of the call of thread t.
ThreadStep(t) == LockAcquire(t) \/ LockedExec(t) \/ LockRelease(t)

NextLock ==
    \/ \E t \in Procs, op \in LockOps, c \in Contexts, port \in CreatePorts :
            ThreadCall(t, op, c, port)
    \/ \E t \in Procs : LockAcquire(t)
    \/ \E t \in Procs : LockedExec(t)
    \/ \E t \in Procs : LockRelease(t)

\* Every thread keeps being scheduled; the lock itself promises no order
\* among the threads that wait for it.
SpecLock ==
    Init /\ [][NextLock]_vars /\ \A t \in Procs : WF_vars(ThreadStep(t))

\* C35: the lock is held by thread t exactly while t is inside the with
\* block of one Registry operation, so a thread whose call has returned or
\* raised (a conflict error of create_allocation included) does not hold it,
\* and every call that waits for the lock comes to its return or its raise.
C35_LockDiscipline ==
    /\ [](\A t \in Procs :
            lock = t <=> /\ pending[t] # None
                         /\ pending[t].status \in {"locked", "exit"})
    /\ \A t \in Procs :
            (pending[t] # None /\ pending[t].status = "waiting")
                ~> (pending[t] # None /\ pending[t].status \in ThreadOver)

\* The create_allocation of one thread raised its conflict error and another
\* thread then holds the lock.
C35_Witness ==
    \E t, u \in Procs :
        /\ pending[t] # None
        /\ pending[t].status = "raised"
        /\ pending[u] # None
        /\ pending[u].status = "locked"
        /\ lock = u
====
